---- MODULE Spec2Model ----
(***************************************************************************)
(* A model of the tensor and dimension machinery of earthkit-data:         *)
(*   - earthkit/data/indexing/tensor.py    (index translation, tensors)    *)
(*   - earthkit/data/utils/xarray/dim.py   (Dim, Dims)                     *)
(*   - earthkit/data/utils/dates.py        (step_to_delta)                 *)
(*   - earthkit/data/utils/xarray/coord.py (StepCoord)                     *)
(* Python sequences are 0-based; TLA+ sequences are 1-based. Positions     *)
(* and flat indices keep their Python (0-based) values, and element k of   *)
(* a Python sequence is element k+1 of the TLA+ sequence modelling it.     *)
(***************************************************************************)
EXTENDS Integers, Sequences, FiniteSets, TLC

VARIABLES ix, tn, dm, sp, ob

vars == <<ix, tn, dm, sp, ob>>

\* the value of a variable in the specifications that do not use it
IxIdle == [shape |-> <<1>>, from |-> "none", c0 |-> <<0>>, i0 |-> 0,
           coords |-> <<0>>, index |-> 0, pc |-> "idle"]

TnIdle == [pc |-> "idle"]

DmIdle == [pc |-> "idle"]

SpIdle == [pc |-> "idle"]

ObIdle == [pc |-> "idle"]

\* ------------------------------------------------------------------------
\* Bounds of the model
\* ------------------------------------------------------------------------

\* largest size of one dimension in the index-translation runs
MaxSize == 3

\* the numbers of dimensions the index round trip is stated for (1 to 4)
ShapeLens == 1..4

\* ------------------------------------------------------------------------
\* Generic helpers
\* ------------------------------------------------------------------------

RECURSIVE Prod(_)
Prod(s) == IF s = <<>> THEN 1 ELSE Head(s) * Prod(Tail(s))

\* all sequences over S of length n
Tuples(S, n) == [1..n -> S]

\* all sequences over S with length in lo..hi
SeqsOf(S, lo, hi) == UNION {Tuples(S, n) : n \in lo..hi}

\* ------------------------------------------------------------------------
\* tensor.py: coords_to_index / index_to_coords
\* ------------------------------------------------------------------------

\* the loop of coords_to_index: i runs from len(coords)-1 down to 0
\* (here from Len(coords) down to 1)
RECURSIVE c2i_loop(_, _, _, _, _)
c2i_loop(coords, shape, i, index, n) ==
    IF i < 1 THEN index
    ELSE c2i_loop(coords, shape, i - 1, index + coords[i] * n, n * shape[i])

\* mutant: the first dimension varies fastest (column-major)
RECURSIVE c2i_loop_colmajor(_, _, _, _, _)
c2i_loop_colmajor(coords, shape, i, index, n) ==
    IF i > Len(coords) THEN index
    ELSE c2i_loop_colmajor(coords, shape, i + 1, index + coords[i] * n, n * shape[i])

coords_to_index_colmajor(coords, shape) == c2i_loop_colmajor(coords, shape, 1, 0, 1)

coords_to_index(coords, shape) == c2i_loop(coords, shape, Len(coords), 0, 1)

\* the while loop of index_to_coords: result[i] = index % shape[i];
\* index = index // shape[i]; i -= 1   (result starts as [None] * len(shape))
RECURSIVE i2c_loop(_, _, _, _)
i2c_loop(index, shape, i, result) ==
    IF i < 1 THEN result
    ELSE i2c_loop(index \div shape[i], shape, i - 1,
                  [result EXCEPT ![i] = index % shape[i]])

\* mutant: the quotient is not carried to the next dimension
RECURSIVE i2c_loop_nocarry(_, _, _, _)
i2c_loop_nocarry(index, shape, i, result) ==
    IF i < 1 THEN result
    ELSE i2c_loop_nocarry(index, shape, i - 1,
                          [result EXCEPT ![i] = index % shape[i]])

index_to_coords_nocarry(index, shape) ==
    i2c_loop_nocarry(index, shape, Len(shape), [k \in 1..Len(shape) |-> -1])

index_to_coords(index, shape) ==
    i2c_loop(index, shape, Len(shape), [k \in 1..Len(shape) |-> -1])

\* ------------------------------------------------------------------------
\* Fields and field lists (external collaborators of tensor.py).
\* A field is its metadata for the keys used as dimensions; a field list is
\* a sequence of fields.
\* ------------------------------------------------------------------------

\* longest input field list
MaxFields == 4

DateValues == {20210101, 20210102}

LevelValues == {850, 1000}

Fields == [date : DateValues, level : LevelValues]

\* f.metadata(key)
metadata(f, key) == IF key = "date" THEN f.date ELSE f.level

\* S as an ascending sequence: Python's sorted() on distinct integers
RECURSIVE sorted(_)
sorted(S) ==
    IF S = {} THEN <<>>
    ELSE LET m == CHOOSE x \in S : \A y \in S : x <= y
         IN <<m>> \o sorted(S \ {m})

\* ds.unique_values(*names)[key]: the distinct values of a key
unique_values(ds, key) == {metadata(ds[i], key) : i \in 1..Len(ds)}

\* field f sorts before field g under the keys names (ascending, first key
\* most significant)
FieldLess(f, g, names) ==
    \E k \in 1..Len(names) :
        /\ metadata(f, names[k]) < metadata(g, names[k])
        /\ \A j \in 1..(k - 1) : metadata(f, names[j]) = metadata(g, names[j])

\* ds.order_by(*names): stable ascending sort (insertion of each field after
\* the fields that do not sort after it)
RECURSIVE order_by_insert(_, _, _)
order_by_insert(done, f, names) ==
    IF done = <<>> THEN <<f>>
    ELSE IF FieldLess(f, Head(done), names) THEN <<f>> \o done
    ELSE <<Head(done)>> \o order_by_insert(Tail(done), f, names)

RECURSIVE order_by_loop(_, _, _)
order_by_loop(ds, done, names) ==
    IF ds = <<>> THEN done
    ELSE order_by_loop(Tail(ds), order_by_insert(done, Head(ds), names), names)

order_by(ds, names) == order_by_loop(ds, <<>>, names)

\* TensorGrid.build(source[0], flatten_values): the dims and coords of one
\* field's grid, a 2 x 3 latitude/longitude grid, flattened or not
TensorGrid_dims(flatten_values) ==
    IF flatten_values THEN <<[name |-> "values", n |-> 6]>>
    ELSE <<[name |-> "latitude", n |-> 2], [name |-> "longitude", n |-> 3]>>

TensorGrid_coords(flatten_values) ==
    IF flatten_values THEN <<>>
    ELSE <<[name |-> "latitude", vals |-> <<50, 40>>],
           [name |-> "longitude", vals |-> <<0, 10, 20>>]>>

\* ------------------------------------------------------------------------
\* Selectors: int, slice(start, stop), list of ints, Ellipsis.
\* An optional bound of a slice is <<>> (None) or <<n>>.
\* ------------------------------------------------------------------------

IntSel(n) == [t |-> "int", v |-> n, a |-> <<>>, b |-> <<>>, l |-> <<>>]

SliceSel(a, b) == [t |-> "slice", v |-> 0, a |-> a, b |-> b, l |-> <<>>]

ListSel(l) == [t |-> "list", v |-> 0, a |-> <<>>, b |-> <<>>, l |-> l]

EllipsisSel == [t |-> "ellipsis", v |-> 0, a |-> <<>>, b |-> <<>>, l |-> <<>>]

\* slice(None, None, None)
SliceAll == SliceSel(<<>>, <<>>)

\* the positions lo .. hi-1 as a sequence
Range(lo, hi) == [k \in 1..(IF hi > lo THEN hi - lo ELSE 0) |-> lo + k - 1]

\* one bound of a slice over a sequence of length c (slice.indices, step 1)
SliceBound(x, c, default) ==
    IF x = <<>> THEN default
    ELSE IF x[1] < 0 THEN (IF x[1] + c < 0 THEN 0 ELSE x[1] + c)
    ELSE IF x[1] > c THEN c ELSE x[1]

\* a position p counted from the end when negative
WrapPos(p, c) == IF p < 0 THEN p + c ELSE p

InRange(p, c) == -c <= p /\ p < c

\* np.array(list(range(c)))[s].tolist(), made a list when it is a scalar:
\* the retained positions of a dimension of size c under selector s
np_positions(s, c) ==
    CASE s.t = "int" ->
            IF InRange(s.v, c)
            THEN [err |-> "none", lst |-> <<WrapPos(s.v, c)>>]
            ELSE [err |-> "IndexError", lst |-> <<>>]
      [] s.t = "slice" ->
            [err |-> "none",
             lst |-> Range(SliceBound(s.a, c, 0), SliceBound(s.b, c, c))]
      [] s.t = "list" ->
            IF \A k \in 1..Len(s.l) : InRange(s.l[k], c)
            THEN [err |-> "none",
                  lst |-> [k \in 1..Len(s.l) |-> WrapPos(s.l[k], c)]]
            ELSE [err |-> "IndexError", lst |-> <<>>]
      [] OTHER -> [err |-> "none", lst |-> Range(0, c)]

\* itertools.product(*lists): the tuples in order, the last list varying
\* fastest
RECURSIVE product(_)
product(lists) ==
    IF lists = <<>> THEN << <<>> >>
    ELSE LET rest == product(Tail(lists))
             first == Head(lists)
             n == Len(rest)
         IN [k \in 1..(Len(first) * n) |->
                <<first[((k - 1) \div n) + 1]>> \o rest[((k - 1) % n) + 1]]

\* ------------------------------------------------------------------------
\* tensor.py: TensorCore / FieldListTensor
\* A tensor object is a record of the attributes FieldListTensor.__init__
\* sets. user_coords, user_dims, field_coords and field_dims are ordered
\* mappings, modelled as sequences of entries. The outcome of an operation is
\* a record [err, t, self]: err is "none" or the exception raised, t the
\* tensor returned, self the object the method was called on as the call
\* leaves it.
\* ------------------------------------------------------------------------

NullTensor ==
    [source |-> <<>>, user_coords |-> <<>>, user_shape |-> <<>>,
     user_dims |-> <<>>, field_coords |-> <<>>, field_shape |-> <<>>,
     field_dims |-> <<>>, full_shape |-> <<>>, flatten_values |-> FALSE]

Raise(e, self) == [err |-> e, t |-> NullTensor, self |-> self]

\* the names of an ordered mapping
MapKeys(m) == [k \in 1..Len(m) |-> m[k].name]

HasKey(m, name) == \E k \in 1..Len(m) : m[k].name = name

\* TensorCore._coords_shape
coords_shape(coords) == [k \in 1..Len(coords) |-> Len(coords[k].vals)]

\* TensorCore._dims_shape
dims_shape(dims) == [k \in 1..Len(dims) |-> dims[k].n]

\* TensorCore._index_to_coords_value
index_to_coords_value(index, tensor) ==
    LET coord_idx == index_to_coords(index, tensor.user_shape)
    IN [k \in 1..Len(tensor.user_coords) |->
           tensor.user_coords[k].vals[coord_idx[k] + 1]]

\* Python values as ListDiff sees them: an int, a float (v its value up to
\* the tolerance of math.isclose, e what tells two floats within that
\* tolerance apart), a str, or a value of another type (None)
PyInt(n) == [t |-> "int", v |-> n, e |-> 0]

PyFloat(v, e) == [t |-> "float", v |-> v, e |-> e]

PyStr(x) == [t |-> "str", v |-> x, e |-> 0]

PyNone == [t |-> "NoneType", v |-> 0, e |-> 0]

\* ListDiff._compare: [err, same]
ListDiff_compare(v1, v2) ==
    IF v1.t = "int" /\ v2.t = "int" THEN [err |-> "none", same |-> v1.v = v2.v]
    ELSE IF v1.t = "float" /\ v2.t = "float"
    THEN [err |-> "none", same |-> v1.v = v2.v]
    ELSE IF v1.t = "str" /\ v2.t = "str" THEN [err |-> "none", same |-> v1.v = v2.v]
    ELSE IF v1.t # v2.t THEN [err |-> "none", same |-> FALSE]
    ELSE [err |-> "ValueError", same |-> FALSE]

\* the loop of ListDiff.diff from pair i on (lines 88-96)
RECURSIVE ListDiff_loop(_, _, _)
ListDiff_loop(vals1, vals2, i) ==
    IF i > Len(vals1) THEN [err |-> "none", same |-> TRUE, diff_index |-> -1]
    ELSE LET c == ListDiff_compare(vals1[i], vals2[i])
         IN IF c.err # "none"
            THEN [err |-> c.err, same |-> FALSE, diff_index |-> -1]
            ELSE IF ~c.same
            THEN [err |-> "none", same |-> FALSE, diff_index |-> i - 1]
            ELSE ListDiff_loop(vals1, vals2, i + 1)

\* ListDiff.diff on two lists: same, and the 0-based position of the first
\* differing pair (-1 when there is none or the lengths differ); the
\* comparison of a pair may raise before a differing pair is met
ListDiff_diff(vals1, vals2) ==
    IF Len(vals1) # Len(vals2)
    THEN [err |-> "none", same |-> FALSE, diff_index |-> -1]
    ELSE ListDiff_loop(vals1, vals2, 1)

\* a list of ints as a list of Python values
PyInts(vals) == [k \in DOMAIN vals |-> PyInt(vals[k])]

\* f.metadata(coord_keys)
metadata_list(f, coord_keys) ==
    [k \in 1..Len(coord_keys) |-> metadata(f, coord_keys[k])]

\* the loop of CubeChecker.first_diff from field i (0-based) on
RECURSIVE first_diff_loop(_, _, _)
first_diff_loop(tensor, coord_keys, i) ==
    IF i >= Len(tensor.source)
    THEN [found |-> FALSE, index |-> -1, diff_index |-> -1]
    ELSE LET diff == ListDiff_diff(PyInts(index_to_coords_value(i, tensor)),
                                   PyInts(metadata_list(tensor.source[i + 1],
                                                        coord_keys)))
         IN IF ~diff.same
            THEN [found |-> TRUE, index |-> i, diff_index |-> diff.diff_index]
            ELSE first_diff_loop(tensor, coord_keys, i + 1)

\* CubeChecker.first_diff: the first field (0-based index) whose metadata
\* for coord_keys differs from the coordinates expected at its flat index
first_diff(tensor, coord_keys) == first_diff_loop(tensor, coord_keys, 0)

\* lines 125-170 of CubeChecker.check with r the result of first_diff.
\* With a single field there is no neighbour field, and the names the
\* message is built from (namespaces, text_ns) are not bound.
CubeChecker_raise(r, field_num, coord_keys) ==
    IF ~r.found THEN [err |-> "none", index |-> -1, name |-> ""]
    ELSE IF field_num = 1
    THEN [err |-> "UnboundLocalError", index |-> -1, name |-> ""]
    ELSE [err |-> "ValueError", index |-> r.index,
          name |-> IF r.diff_index # -1 THEN coord_keys[r.diff_index + 1] ELSE ""]

\* CubeChecker.check(details=True): [err, index, name], err "none" when it
\* returns and else the exception it raises, index and name the field and
\* the dimension its message names (-1 and "" when it names none)
CubeChecker_report(tensor) ==
    IF Len(tensor.source) = Prod(tensor.user_shape)
    THEN [err |-> "none", index |-> -1, name |-> ""]
    ELSE IF \E k \in 1..Len(tensor.user_shape) : tensor.user_shape[k] = 0
    THEN [err |-> "ZeroDivisionError", index |-> -1, name |-> ""]
    ELSE CubeChecker_raise(first_diff(tensor, MapKeys(tensor.user_coords)),
                           Len(tensor.source), MapKeys(tensor.user_coords))

\* CubeChecker.check(details=True): "none" when it returns, else the
\* exception it raises
CubeChecker_check(tensor) == CubeChecker_report(tensor).err

\* the attribute assignments of FieldListTensor.__init__
FieldListTensor_attrs(source, user_coords, field_coords, field_dims, flatten_values) ==
    [source |-> source,
     user_coords |-> user_coords,
     user_shape |-> coords_shape(user_coords),
     user_dims |-> [k \in 1..Len(user_coords) |->
                      [name |-> user_coords[k].name, n |-> Len(user_coords[k].vals)]],
     field_coords |-> field_coords,
     field_shape |-> dims_shape(field_dims),
     field_dims |-> field_dims,
     full_shape |-> coords_shape(user_coords) \o dims_shape(field_dims),
     flatten_values |-> flatten_values]

\* FieldListTensor.__init__: the attributes, then the consistency check
FieldListTensor_init(source, user_coords, field_coords, field_dims, flatten_values) ==
    LET t == FieldListTensor_attrs(source, user_coords, field_coords,
                                   field_dims, flatten_values)
        e == CubeChecker_check(t)
    IN IF e = "none" THEN [err |-> "none", t |-> t] ELSE [err |-> e, t |-> NullTensor]

\* FieldListTensor.from_tensor
from_tensor(owner, source, user_coords) ==
    FieldListTensor_init(source, user_coords, owner.field_coords,
                         owner.field_dims, owner.flatten_values)

\* FieldListTensor.from_fieldlist(ds, *names, sort=sort,
\* flatten_values=flatten_values,
\* user_dims_and_coords=user_dims_and_coords), ds not empty.
\* user_dims_and_coords is the mapping given by the caller as a sequence of
\* [name, vals] items in its own order, <<>> for None: when given (and
\* names is not empty) it is stored as it is, neither sorted nor reduced to
\* its distinct values.
from_fieldlist(ds, names, sort, flatten_values, user_dims_and_coords) ==
    LET source == IF names # <<>> /\ sort THEN order_by(ds, names) ELSE ds
        user_coords ==
            IF names = <<>> THEN <<>>
            ELSE IF user_dims_and_coords # <<>> THEN user_dims_and_coords
            ELSE [k \in 1..Len(names) |->
                     [name |-> names[k],
                      vals |-> sorted(unique_values(ds, names[k]))]]
    IN IF Len(ds) = 0 THEN [err |-> "AssertionError", t |-> NullTensor]
       ELSE FieldListTensor_init(source, user_coords,
                                 TensorGrid_coords(flatten_values),
                                 TensorGrid_dims(flatten_values), flatten_values)

\* vals[idx] for idx an int or a slice, as the list _subset_coords stores
\* (a scalar result is wrapped in a list)
list_getitem(vals, idx) ==
    IF idx.t = "int"
    THEN IF InRange(idx.v, Len(vals))
         THEN [err |-> "none", v |-> <<vals[WrapPos(idx.v, Len(vals)) + 1]>>]
         ELSE [err |-> "IndexError", v |-> <<>>]
    ELSE [err |-> "none",
          v |-> SubSeq(vals, SliceBound(idx.a, Len(vals), 0) + 1,
                       SliceBound(idx.b, Len(vals), Len(vals)))]

\* the loop of TensorCore._subset_coords over the user dimensions, from
\* dimension i on; r is the mapping built so far. A list selector reads
\* self.coords, an attribute a FieldListTensor does not have: the
\* comprehension raises AttributeError at its first element.
RECURSIVE subset_coords_loop(_, _, _, _)
subset_coords_loop(self, indexes, i, r) ==
    IF i > Len(self.user_coords) THEN [err |-> "none", coords |-> r]
    ELSE LET k == self.user_coords[i].name
             vals == self.user_coords[i].vals
         IN IF i <= Len(indexes)
            THEN LET idx == indexes[i]
                 IN IF idx.t \in {"int", "slice"}
                    THEN LET v == list_getitem(vals, idx)
                         IN IF v.err # "none" THEN [err |-> v.err, coords |-> r]
                            ELSE subset_coords_loop(self, indexes, i + 1,
                                     Append(r, [name |-> k, vals |-> v.v]))
                    ELSE IF idx.t = "list"
                    THEN IF idx.l # <<>> THEN [err |-> "AttributeError", coords |-> r]
                         ELSE subset_coords_loop(self, indexes, i + 1,
                                  Append(r, [name |-> k, vals |-> <<>>]))
                    ELSE subset_coords_loop(self, indexes, i + 1, r)
            ELSE subset_coords_loop(self, indexes, i + 1,
                     Append(r, [name |-> k, vals |-> vals]))

\* TensorCore._subset_coords
subset_coords(self, indexes) == subset_coords_loop(self, indexes, 1, <<>>)

\* self.source[tuple(dataset_indexes)]: the fields at the given positions
fieldlist_getitem(source, dataset_indexes) ==
    IF \A k \in 1..Len(dataset_indexes) : dataset_indexes[k] < Len(source)
    THEN [err |-> "none",
          ds |-> [k \in 1..Len(dataset_indexes) |-> source[dataset_indexes[k] + 1]]]
    ELSE [err |-> "IndexError", ds |-> <<>>]

\* mutant: the subset is written into the tensor it was taken from
subset_inplace(self, indexes) ==
    LET n == Len(self.user_shape)
        pos == [k \in 1..n |-> np_positions(indexes[k], self.user_shape[k])]
        user_coords == [k \in 1..n |-> pos[k].lst]
        tuples == product(user_coords)
        dataset_indexes == [j \in 1..Len(tuples) |->
                               coords_to_index(tuples[j], self.user_shape)]
        coords == subset_coords(self, SubSeq(indexes, 1, n))
        ds == fieldlist_getitem(self.source, dataset_indexes)
        new == from_tensor(self, ds.ds, coords.coords)
    IN IF Len(indexes) < n THEN Raise("AssertionError", self)
       ELSE IF \E k \in 1..n : pos[k].err # "none" THEN Raise("IndexError", self)
       ELSE IF coords.err # "none" THEN Raise(coords.err, self)
       ELSE IF Len(coords.coords) # Len(self.user_coords)
       THEN Raise("AssertionError", self)
       ELSE IF ds.err # "none" THEN Raise(ds.err, self)
       ELSE IF new.err # "none" THEN Raise(new.err, self)
       ELSE [err |-> "none", t |-> new.t, self |-> new.t]

\* FieldListTensor._subset
subset(self, indexes) ==
    LET n == Len(self.user_shape)
        \* zip(indexes, self._user_shape)
        pos == [k \in 1..n |-> np_positions(indexes[k], self.user_shape[k])]
        user_coords == [k \in 1..n |-> pos[k].lst]
        user_indexes == SubSeq(indexes, 1, n)
        tuples == product(user_coords)
        dataset_indexes == [j \in 1..Len(tuples) |->
                               coords_to_index(tuples[j], self.user_shape)]
        coords == subset_coords(self, user_indexes)
        ds == fieldlist_getitem(self.source, dataset_indexes)
        new == from_tensor(self, ds.ds, coords.coords)
    IN IF Len(indexes) < n THEN Raise("AssertionError", self)
       ELSE IF \E k \in 1..n : pos[k].err # "none" THEN Raise("IndexError", self)
       ELSE IF coords.err # "none" THEN Raise(coords.err, self)
       ELSE IF Len(coords.coords) # Len(self.user_coords)
       THEN Raise("AssertionError", self)
       ELSE IF ds.err # "none" THEN Raise(ds.err, self)
       ELSE IF new.err # "none" THEN Raise(new.err, self)
       ELSE [err |-> "none", t |-> new.t, self |-> self]

\* the two while loops of TensorCore.__getitem__
RECURSIVE getitem_pad(_, _)
getitem_pad(indexes, n) ==
    IF Len(indexes) <= n THEN getitem_pad(Append(indexes, SliceAll), n)
    ELSE indexes

RECURSIVE getitem_pop(_, _)
getitem_pop(indexes, n) ==
    IF Len(indexes) > n THEN getitem_pop(SubSeq(indexes, 1, Len(indexes) - 1), n)
    ELSE indexes

\* mutant: nothing is appended for the missing dimensions
getitem_normalize_nopad(indexes, n) ==
    LET a == IF indexes[Len(indexes)].t = "ellipsis"
             THEN SubSeq(indexes, 1, Len(indexes) - 1) ELSE indexes
    IN getitem_pop(a, n)

\* the argument of __getitem__ made a tuple of len(user_shape) selectors; the
\* argument is not empty
getitem_normalize(indexes, n) ==
    LET a == IF indexes[Len(indexes)].t = "ellipsis"
             THEN SubSeq(indexes, 1, Len(indexes) - 1) ELSE indexes
    IN getitem_pop(getitem_pad(a, n), n)

\* TensorCore.__getitem__(indexes): arg.kind is "int", "list" or "tuple" and
\* arg.items the selectors (the int itself for an int)
getitem(self, arg) ==
    IF arg.items = <<>> THEN Raise("IndexError", self)
    ELSE subset(self, getitem_normalize(arg.items, Len(self.user_shape)))

\* CubeSelection.match_element for a request of one label or a list of labels
match_element(request, element) == \E j \in 1..Len(request) : request[j] = element

\* mutant: the positions are counted from one
sel_selector_shifted(vals, request) ==
    LET S == {i \in 1..Len(vals) : match_element(request, vals[i])}
        r == sorted(S)
    IN IF Len(r) = 1 THEN SliceSel(<<r[1]>>, <<r[1] + 1>>) ELSE ListSel(r)

\* the selector sel() builds for one requested dimension: the positions of
\* the matching coordinate values, a single match collapsed to a slice
sel_selector(vals, request) ==
    LET S == {i \in 0..(Len(vals) - 1) : match_element(request, vals[i + 1])}
        r == sorted(S)
    IN IF Len(r) = 1 THEN SliceSel(<<r[1]>>, <<r[1] + 1>>) ELSE ListSel(r)

\* the entry of a keyword mapping for name k (k is a key of kwargs)
KwGet(kwargs, k) == kwargs[CHOOSE j \in 1..Len(kwargs) : kwargs[j].k = k]

KwHas(kwargs, k) == \E j \in 1..Len(kwargs) : kwargs[j].k = k

\* TensorCore.sel(**kwargs): kwargs is a sequence of [k, v], v the requested
\* labels
sel(self, kwargs) ==
    LET coordsOf(k) == self.user_coords[CHOOSE i \in 1..Len(self.user_coords) :
                                            self.user_coords[i].name = k].vals
        indexes == [i \in 1..Len(self.user_coords) |->
                      LET k == self.user_coords[i].name
                      IN IF KwHas(kwargs, k)
                         THEN sel_selector(coordsOf(k), KwGet(kwargs, k).v)
                         ELSE SliceAll]
    IN IF \E j \in 1..Len(kwargs) : ~HasKey(self.user_coords, kwargs[j].k)
       THEN Raise("KeyError", self)
       ELSE subset(self, indexes)

\* TensorCore.isel(**kwargs): kwargs is a sequence of [k, v], v a selector
isel(self, kwargs) ==
    LET indexes == [i \in 1..Len(self.user_coords) |->
                      LET k == self.user_coords[i].name
                      IN IF KwHas(kwargs, k) THEN KwGet(kwargs, k).v
                         ELSE SliceAll]
    IN subset(self, indexes)

\* the attributes that can be read on a FieldListTensor: the class
\* attributes and properties of TensorCore and what FieldListTensor.__init__
\* sets (there is no __getattr__)
TensorAttrs ==
    {"_type", "_shape", "_user_coords", "_user_dims", "_user_shape",
     "_field_coords", "_field_dims", "_field_shape", "_array", "_data",
     "flatten_values", "full_shape", "user_shape", "field_shape",
     "full_dims", "user_dims", "field_dims", "full_coords", "user_coords",
     "field_coords", "source", "_full_shape"}

\* None, where a tensor attribute holds no mapping or tuple
None == "None"

\* ArrayTensor.__init__(array, coords, field_shape): coords is stored as
\* _coords; _user_coords and _user_shape, which user_coords, user_shape and
\* the selection methods read, keep the class values None
ArrayTensor_init(array, coords, field_shape) ==
    [array |-> array, coords |-> coords, shape |-> Len(array),
     field_shape |-> field_shape, user_coords |-> None, user_shape |-> None]

\* TensorCore.copy(data=None) on a FieldListTensor: the array is made,
\* then self.coords is read for the ArrayTensor
copy(self) ==
    IF "coords" \notin TensorAttrs THEN Raise("AttributeError", self)
    ELSE [err |-> "none", self |-> self,
          t |-> ArrayTensor_init(self.source, self.user_coords,
                                 self.field_shape)]

\* ------------------------------------------------------------------------
\* dim.py: key tables, Dim and its subtypes.
\* A Dim object is a record [cls, name, key, alias, drop, active]; alias and
\* drop are kept as sets (the code only tests membership). "" stands for
\* None as a name or key.
\* ------------------------------------------------------------------------

ENS_KEYS == {"number", "perturbationNumber", "realization"}

LEVEL_KEYS == {"level", "levelist", "topLevel", "bottomLevel", "levels"}

LEVEL_TYPE_KEYS == {"typeOfLevel", "levtype"}

DATE_KEYS == {"date", "andate", "validityDate", "dataDate", "hdate",
              "referenceDate", "indexingDate"}

TIME_KEYS == {"time", "antime", "validityTime", "dataTime", "referenceTime",
              "indexingTime"}

STEP_KEYS == {"step", "endStep", "stepRange"}

VALID_DATETIME_KEYS == {"valid_time", "valid_datetime"}

BASE_DATETIME_KEYS == {"forecast_reference_time", "base_time", "base_datetime",
                       "reference_time", "reference_datetime", "indexing_time",
                       "indexing_datetime"}

DATETIME_KEYS == BASE_DATETIME_KEYS \cup VALID_DATETIME_KEYS

\* get_keys(keys, drop=name)
get_keys(keys, drop) == keys \ {drop}

\* the class attributes (name, alias, drop) of each Dim subtype
ClassAttrs(cls) ==
    CASE cls = "NumberDim" -> [name |-> "", alias |-> ENS_KEYS, drop |-> {}]
      [] cls = "DateDim" ->
            [name |-> "date", alias |-> {},
             drop |-> get_keys(DATE_KEYS \cup DATETIME_KEYS, "date")]
      [] cls = "TimeDim" ->
            [name |-> "time", alias |-> {},
             drop |-> get_keys(TIME_KEYS \cup DATETIME_KEYS, "time")]
      [] cls = "StepDim" ->
            [name |-> "step", alias |-> {},
             drop |-> get_keys(STEP_KEYS \cup VALID_DATETIME_KEYS, "step")]
      [] cls = "ValidTimeDim" ->
            [name |-> "valid_time", alias |-> {},
             drop |-> get_keys(DATE_KEYS \cup TIME_KEYS \cup DATETIME_KEYS,
                               "valid_time")]
      [] cls = "ForecastRefTimeDim" ->
            [name |-> "forecast_reference_time", alias |-> {"base_datetime"},
             drop |-> get_keys(DATE_KEYS \cup TIME_KEYS \cup DATETIME_KEYS,
                               "forecast_reference_time")]
      [] cls = "IndexingTimeDim" ->
            [name |-> "indexing_time", alias |-> {},
             drop |-> get_keys(DATE_KEYS \cup TIME_KEYS \cup DATETIME_KEYS,
                               "indexing_time")]
      [] cls = "ReferenceTimeDim" ->
            [name |-> "reference_time", alias |-> {},
             drop |-> get_keys(DATE_KEYS \cup TIME_KEYS \cup DATETIME_KEYS,
                               "reference_time")]
      [] cls = "LevelDim" -> [name |-> "", alias |-> LEVEL_KEYS, drop |-> {}]
      [] cls = "LevelPerTypeDim" ->
            [name |-> "_level_per_type", alias |-> {},
             drop |-> get_keys(LEVEL_KEYS \cup LEVEL_TYPE_KEYS, "_level_per_type")]
      [] cls = "LevelAndTypeDim" ->
            [name |-> "level_and_type", alias |-> {},
             drop |-> get_keys(LEVEL_KEYS \cup LEVEL_TYPE_KEYS, "level_and_type")]
      [] OTHER -> [name |-> "", alias |-> {}, drop |-> {}]

\* mutant: alias and drop are stored as they are
Dim_filtered_keep(cls, name, key, alias, drop, active) ==
    [cls |-> cls, name |-> name, key |-> key, alias |-> alias, drop |-> drop,
     active |-> active]

\* the end of Dim.__init__ (lines 150-167): alias and drop without the
\* name and the key
Dim_filtered(cls, name, key, alias, drop, active) ==
    [cls |-> cls, name |-> name, key |-> key,
     alias |-> alias \ {name, key}, drop |-> drop \ {name, key},
     active |-> active]

\* lines 138-142: a missing key is the name, a missing name is the key
Dim_named(cls, name, key, alias, drop, active) ==
    Dim_filtered(cls,
                 IF name = "" /\ key = "" THEN "" ELSE IF name = "" THEN key ELSE name,
                 IF key = "" THEN name ELSE key,
                 alias, drop, active)

\* lines 132-136 and 153-154 with the class attributes ca
Dim_with(ca, cls, name, key, keySet, dropSet, useDropSet, active) ==
    Dim_named(cls,
              IF name # "" THEN name ELSE ca.name,
              IF key # "" THEN key ELSE keySet,
              ca.alias,
              IF useDropSet THEN dropSet ELSE ca.drop,
              active)

\* Dim.__init__(owner, name, key, active=active) of class cls; keySet is the
\* key an __init__ of the subtype has set on the instance ("" when it has
\* not), dropSet the drop list it has set (when useDropSet)
Dim_init(cls, name, key, keySet, dropSet, useDropSet, active) ==
    Dim_with(ClassAttrs(cls), cls, name, key, keySet, dropSet, useDropSet, active)

\* an optional list argument: not given (None), or the given list
NoArg == [given |-> FALSE, v |-> {}]

Arg(v) == [given |-> TRUE, v |-> v]

\* Dim.__init__(owner, name, key, alias, drop, active) of class cls with the
\* alias and drop arguments: a given list replaces the class attribute and
\* what the subtype has set (lines 149-153)
Dim_init_args(cls, name, key, alias, drop, keySet, dropSet, useDropSet, active) ==
    Dim_with([name |-> ClassAttrs(cls).name,
              alias |-> IF alias.given THEN alias.v ELSE ClassAttrs(cls).alias,
              drop |-> ClassAttrs(cls).drop],
             cls, name, key, keySet,
             IF drop.given THEN drop.v ELSE dropSet,
             drop.given \/ useDropSet, active)

\* Dim.__contains__
Contains(d, key) == key \in {d.name, d.key} \/ key \in d.alias

\* the static table PREDEFINED_DIMS: name -> class ("" when not predefined)
PREDEFINED_DIMS(name) ==
    CASE name \in ENS_KEYS -> "NumberDim"
      [] name = "forecast_reference_time" -> "ForecastRefTimeDim"
      [] name = "date" -> "DateDim"
      [] name = "time" -> "TimeDim"
      [] name = "step" -> "StepDim"
      [] name = "valid_time" -> "ValidTimeDim"
      [] name \in LEVEL_KEYS -> "LevelDim"
      [] name = "_level_per_type" -> "LevelPerTypeDim"
      [] name = "level_and_type" -> "LevelAndTypeDim"
      [] OTHER -> ""

\* the characters of the predefined keys that contain key as a substring:
\* find_alias iterates the flat list KEYS and extends its result with each
\* matching string, that is with its characters
find_alias(key) ==
    CASE key = "level" -> {"l", "e", "v", "i", "s", "t"}
      [] key = "levelist" -> {"l", "e", "v", "i", "s", "t"}
      [] OTHER -> {}

\* COMPOUND_KEYS: the keys of a compound key ({} when the name is not one)
CompoundKey_keys(name) ==
    IF name = "param_level" THEN {"param", "level", "levelist"} ELSE {}

\* RemappingDim.build_drop
build_drop(keys) == keys \cup UNION {find_alias(k) : k \in keys}

\* make_dim(owner, name, active=active) with cls the entry of
\* PREDEFINED_DIMS for name: [err, d]
make_dim_of(cls, name, active) ==
    IF cls \in {"LevelPerTypeDim", "LevelAndTypeDim"}
    THEN [err |-> "TypeError", d |-> Dim_init("OtherDim", name, "", "", {}, FALSE, active)]
    ELSE IF cls # ""
    THEN [err |-> "none", d |-> Dim_init(cls, "", name, "", {}, FALSE, active)]
    ELSE IF CompoundKey_keys(name) # {}
    THEN [err |-> "none",
          d |-> Dim_init("CompoundKeyDim", name, "", "",
                         build_drop(CompoundKey_keys(name)), TRUE, TRUE)]
    ELSE [err |-> "none", d |-> Dim_init("OtherDim", name, "", "", {}, FALSE, active)]

make_dim(name, active) == make_dim_of(PREDEFINED_DIMS(name), name, active)

\* ------------------------------------------------------------------------
\* dim.py: the dimension modes and builders. A dims mapping (a Python dict,
\* insertion ordered) is a sequence of entries [mk, d]: mapping key and Dim.
\* ------------------------------------------------------------------------

\* the dim_roles handed to Dims by the profile (owner.dim_roles)
dim_roles ==
    [ens |-> "number", level |-> "levelist", level_type |-> "levtype",
     date |-> "date", time |-> "time", step |-> "step",
     forecast_reference_time |-> "forecast_reference_time"]

Entry(mk, d) == [mk |-> mk, d |-> d]

MapKeysOf(m) == {m[j].mk : j \in DOMAIN m}

\* DimMode.build for a mode with the given default names
DimMode_build(default, active) ==
    [j \in DOMAIN default |-> Entry(default[j], make_dim(default[j], active).d)]

\* ForecastTimeDimMode.build: the two dimensions under their names (line 415)
ForecastTimeDimMode_dims(ref_time_dim, step_dim) ==
    <<Entry(ref_time_dim.name, ref_time_dim), Entry(step_dim.name, step_dim)>>

\* ForecastTimeDimMode.build
ForecastTimeDimMode_build(active) ==
    ForecastTimeDimMode_dims(
        IF dim_roles.forecast_reference_time = "forecast_reference_time"
        THEN Dim_init("ForecastRefTimeDim", "", "", "", {}, FALSE, active)
        ELSE IF dim_roles.forecast_reference_time # ""
        THEN make_dim(dim_roles.forecast_reference_time, active).d
        ELSE IF dim_roles.date \in {"date", "dataDate"}
                /\ dim_roles.time \in {"time", "dataTime"}
        THEN Dim_init("ForecastRefTimeDim", "", "", "", {}, FALSE, active)
        ELSE Dim_init("CustomForecastRefDim", "",  "",
                      dim_roles.date \o "_" \o dim_roles.time,
                      {dim_roles.date, dim_roles.time}, TRUE, active),
        make_dim(dim_roles.step, active).d)

\* TIME_DIM_MODES: mode name -> what its build returns ("" keyed when unknown)
TIME_DIM_MODES == {"forecast", "valid_time", "raw"}

TimeDimMode_build(mode, active) ==
    CASE mode = "forecast" -> ForecastTimeDimMode_build(active)
      [] mode = "valid_time" -> DimMode_build(<<"valid_time">>, active)
      [] mode = "raw" -> DimMode_build(<<"date", "time", "step">>, active)

\* LevelDimMode.build, LevelPerTypeDimMode.build, LevelAndTypeDimMode.build
LEVEL_DIM_MODES == {"level", "level_per_type", "level_and_type"}

LevelDimMode_build(mode, active) ==
    CASE mode = "level" ->
            <<Entry(dim_roles.level,
                    Dim_init("LevelDim", "", dim_roles.level, "", {}, FALSE, active))>>
      [] mode = "level_per_type" ->
            <<Entry("level_per_type",
                    Dim_init("LevelPerTypeDim", "", "", dim_roles.level, {}, FALSE,
                             active))>>
      [] mode = "level_and_type" ->
            <<Entry("level_and_type",
                    Dim_init("LevelAndTypeDim", "", "", "", {}, FALSE, active))>>

\* NumberDimBuilder, TimeDimBuilder, LevelDimBuilder: [err, used, ignored].
\* ignored maps a mode name to the dims of that mode built inactive: the
\* filter "v != mode" compares a mode class with the mode instance and so
\* keeps every mode, the selected one too.
NumberDimBuilder ==
    [err |-> "none",
     used |-> <<Entry("number",
                      Dim_init("NumberDim", "", dim_roles.ens, "", {}, FALSE, TRUE))>>,
     ignored |-> <<>>]

TimeDimBuilder(time_dim_mode) ==
    IF time_dim_mode \notin TIME_DIM_MODES
    THEN [err |-> "ValueError", used |-> <<>>, ignored |-> <<>>]
    ELSE [err |-> "none", used |-> TimeDimMode_build(time_dim_mode, TRUE),
          ignored |-> [k \in {v \in TIME_DIM_MODES : TRUE} |->
                          TimeDimMode_build(k, FALSE)]]

LevelDimBuilder(level_dim_mode) ==
    IF level_dim_mode \notin LEVEL_DIM_MODES
    THEN [err |-> "ValueError", used |-> <<>>, ignored |-> <<>>]
    ELSE [err |-> "none", used |-> LevelDimMode_build(level_dim_mode, TRUE),
          ignored |-> [k \in {v \in LEVEL_DIM_MODES : TRUE} |->
                          LevelDimMode_build(k, FALSE)]]

\* ------------------------------------------------------------------------
\* dim.py: Dims. The Dim objects live in a heap objs (a sequence; an object's
\* identity is its position), and Dims.dims is a sequence of entries
\* [mk, o]: mapping key and object. Configurations are records
\* [variable_key, extra_dims, ensure_dims, drop_dims, fixed_dims,
\*  time_dim_mode, level_dim_mode, squeeze].
\* ------------------------------------------------------------------------

Ref(mk, o) == [mk |-> mk, o |-> o]

SeqToSet(q) == {q[j] : j \in DOMAIN q}

RECURSIVE remove_duplicates(_)
remove_duplicates(keys) ==
    IF keys = <<>> THEN <<>>
    ELSE LET n == Len(keys)
             r == remove_duplicates(SubSeq(keys, 1, n - 1))
         IN IF keys[n] \in SeqToSet(r) THEN r ELSE Append(r, keys[n])

\* Dims.deactivate with ignore_dim NoDim (None) or an object: [objs, names]
NoDim == 0

RECURSIVE deactivate_loop(_, _, _, _, _, _, _)
deactivate_loop(objs, dims, keys, ignore_dim, others, j, names) ==
    IF j > Len(dims) THEN [objs |-> objs, names |-> names]
    ELSE LET o == dims[j].o
             d == objs[o]
         IN IF d.active /\ o # ignore_dim /\ (\E key \in keys : Contains(d, key))
            THEN LET objs1 == [objs EXCEPT ![o].active = FALSE]
                     objs2 == IF others
                              THEN deactivate_loop(objs1, dims,
                                                   {d.name, d.key} \cup d.drop,
                                                   o, FALSE, 1, <<>>).objs
                              ELSE objs1
                 IN deactivate_loop(objs2, dims, keys, ignore_dim, others, j + 1,
                                    Append(names, d.name))
            ELSE deactivate_loop(objs, dims, keys, ignore_dim, others, j + 1, names)

Dims_deactivate(objs, dims, keys, ignore_dim, others) ==
    deactivate_loop(objs, dims, keys, ignore_dim, others, 1, <<>>)

\* Dim.deactivate_drop_list of object o, then Dim.check (condition() is True)
Dim_deactivate_drop_list(objs, dims, o) ==
    Dims_deactivate(objs, dims, {objs[o].name, objs[o].key} \cup objs[o].drop,
                    o, FALSE).objs

Dim_check_keep(objs, dims, o) == objs

Dim_check(objs, dims, o) ==
    IF objs[o].active THEN Dim_deactivate_drop_list(objs, dims, o) ELSE objs

\* ds.index(key): the distinct values of key in a field list, of which the
\* code uses the number; a field list is represented by the keys with one
\* distinct value and the keys with more
ds_index_len(ds, key) ==
    IF key \in ds.many THEN 2 ELSE IF key \in ds.one THEN 1 ELSE 0

\* Dim.update(ds): [err, objs]
Dim_update_revive(objs, o, ds, variable_key) ==
    [err |-> "none",
     objs |-> [objs EXCEPT ![o].active = (ds_index_len(ds, objs[o].key) # 0)]]

Dim_update(objs, o, ds, variable_key) ==
    IF ~objs[o].active THEN [err |-> "none", objs |-> objs]
    ELSE IF Contains(objs[o], variable_key)
    THEN [err |-> "ValueError", objs |-> objs]
    ELSE IF ds_index_len(ds, objs[o].key) = 0
    THEN [err |-> "none", objs |-> [objs EXCEPT ![o].active = FALSE]]
    ELSE [err |-> "none", objs |-> objs]

ActiveOnly(objs, dims) == SelectSeq(dims, LAMBDA e : objs[e.o].active)

\* Dims.remove: [objs, dims]
Dims_remove(objs, dims, keys, ignore_dim, others) ==
    LET objs1 == Dims_deactivate(objs, dims, keys, ignore_dim, others).objs
    IN [objs |-> objs1, dims |-> ActiveOnly(objs1, dims)]

\* Dims.update(ds): [err, objs, dims]; an exception leaves the loop at once
RECURSIVE update_loop(_, _, _, _, _)
update_loop(objs, dims, ds, variable_key, j) ==
    IF j > Len(dims) THEN [err |-> "none", objs |-> objs]
    ELSE LET r == Dim_update(objs, dims[j].o, ds, variable_key)
         IN IF r.err # "none" THEN r
            ELSE update_loop(r.objs, dims, ds, variable_key, j + 1)

Dims_update(objs, dims, ds, variable_key) ==
    LET r == update_loop(objs, dims, ds, variable_key, 1)
    IN IF r.err # "none" THEN [err |-> r.err, objs |-> r.objs, dims |-> dims]
       ELSE [err |-> "none", objs |-> r.objs, dims |-> ActiveOnly(r.objs, dims)]

\* make_dim for each of keys (lines 635 and 674)
make_dims(keys) == [j \in DOMAIN keys |-> make_dim(keys[j], TRUE)]

\* Dims._init_fixed_dims with made the dimensions of fixed_dims: [err, dims]
\* with dims a sequence of entries [mk, d]
init_fixed_dims_of(cfg, made) ==
       IF cfg.variable_key \in SeqToSet(cfg.fixed_dims)
       THEN [err |-> "ValueError", dims |-> <<>>]
       ELSE IF cfg.extra_dims # <<>> \/ cfg.drop_dims # <<>>
       THEN [err |-> "ValueError", dims |-> <<>>]
       ELSE IF \E j \in DOMAIN made : made[j].err # "none"
       THEN [err |-> "TypeError", dims |-> <<>>]
       ELSE [err |-> "none",
             dims |-> [j \in DOMAIN made |-> Entry(cfg.fixed_dims[j], made[j].d)]]

Dims_init_fixed_dims(cfg) == init_fixed_dims_of(cfg, make_dims(cfg.fixed_dims))

\* Dims._init_dims with keys the requested dimensions, var the dimension
\* of the variable key, made the dimensions of keys and number, time, level
\* the builders' results: [err, var_key_dim, dims, core_dim_order]
init_dims_of(cfg, keys, var, made, number, time, level) ==
    LET fail(e) == [err |-> e, var_key_dim |-> var.d,
                    dims |-> <<>>, core_dim_order |-> <<>>]
        extra == SeqToSet(cfg.extra_dims)
        ensure == SeqToSet(cfg.ensure_dims)
        split == SelectSeq(cfg.split_dims,
                           LAMBDA k : k \notin SeqToSet(cfg.drop_dims)
                                      /\ k \notin extra /\ k \notin ensure)
        drop_dims == SeqToSet(cfg.drop_dims \o split)
        dims0 == [j \in DOMAIN keys |-> Entry(keys[j], made[j].d)]
        dims == SelectSeq(dims0, LAMBDA e : e.mk \notin drop_dims)
        core_dims == number.used \o time.used \o level.used
        ignored == DOMAIN level.ignored
        explicit == SelectSeq(dims,
                      LAMBDA e : e.mk \notin MapKeysOf(core_dims)
                                 /\ e.mk \notin ignored
                                 /\ (e.mk \in ensure \/ e.mk \notin drop_dims))
        core == SelectSeq(core_dims,
                      LAMBDA e : e.mk \notin MapKeysOf(explicit)
                                 /\ e.mk \notin drop_dims)
    IN IF SeqToSet(cfg.drop_dims) \cap (extra \cup ensure) # {}
       THEN fail("ValueError")
       ELSE IF var.err # "none" \/ (\E j \in DOMAIN made : made[j].err # "none")
       THEN fail("TypeError")
       ELSE IF cfg.variable_key \in MapKeysOf(dims) THEN fail("ValueError")
       ELSE IF time.err # "none" THEN fail(time.err)
       ELSE IF level.err # "none" THEN fail(level.err)
       ELSE [err |-> "none", var_key_dim |-> var.d, dims |-> explicit \o core,
             core_dim_order |-> [j \in DOMAIN core_dims |-> core_dims[j].mk]]

Dims_init_dims(cfg) ==
    init_dims_of(cfg,
                 remove_duplicates(cfg.extra_dims \o cfg.ensure_dims),
                 make_dim(cfg.variable_key, TRUE),
                 make_dims(remove_duplicates(cfg.extra_dims \o cfg.ensure_dims)),
                 NumberDimBuilder,
                 TimeDimBuilder(cfg.time_dim_mode),
                 LevelDimBuilder(cfg.level_dim_mode))

active_core_dims_reversed(objs, dims, core_dim_order, taken, j) ==
    LET found == SelectSeq(dims, LAMBDA e : e.mk \in SeqToSet(core_dim_order)
                                            /\ objs[e.o].active /\ e.mk \notin taken)
    IN [i \in DOMAIN found |-> found[Len(found) + 1 - i]]

\* the active core dimensions in the order of core_dim_order (lines 580-582);
\* taken holds the mapping keys already kept
RECURSIVE active_core_dims(_, _, _, _, _)
active_core_dims(objs, dims, core_dim_order, taken, j) ==
    IF j > Len(core_dim_order) THEN <<>>
    ELSE LET k == core_dim_order[j]
             found == SelectSeq(dims, LAMBDA e : e.mk = k /\ objs[e.o].active
                                                 /\ k \notin taken)
         IN found \o active_core_dims(objs, dims, core_dim_order,
                                      taken \cup {k}, j + 1)

\* the tail of Dims.__init__ after the check loop (lines 566-584):
\* [err, objs, dims]
Dims_init_finish(objs, dims, core_dim_order, variable_key) ==
    LET r == Dims_deactivate(objs, dims, {"__var_key_dim__", variable_key},
                             NoDim, TRUE)
        first == IF \E j \in DOMAIN r.names : r.names[j] = variable_key
                 THEN CHOOSE j \in DOMAIN r.names :
                        /\ r.names[j] = variable_key
                        /\ \A h \in 1..(j - 1) : r.names[h] # variable_key
                 ELSE 0
        var_dims == [j \in 1..(Len(r.names) - (IF first = 0 THEN 0 ELSE 1)) |->
                        IF first = 0 \/ j < first THEN r.names[j] ELSE r.names[j + 1]]
        order == SeqToSet(core_dim_order)
        noncore == SelectSeq(dims, LAMBDA e : r.objs[e.o].active /\ e.mk \notin order)
    IN IF var_dims # <<>>
       THEN [err |-> "ValueError", objs |-> r.objs, dims |-> dims]
       ELSE [err |-> "none", objs |-> r.objs,
             dims |-> noncore \o active_core_dims(r.objs, dims, core_dim_order,
                                                  MapKeysOf(noncore), 1)]

\* ------------------------------------------------------------------------
\* Specification Spec: a field list is made a tensor by from_fieldlist, and
\* __getitem__, sel and isel are called on the tensors that exist.
\*   tn.pc      "new" (no tensor yet), "built", "failed" (from_fieldlist
\*              raised), "ready" (the caller holds a tensor), "called" (a
\*              selection method has returned or raised)
\*   tn.ds      the input field list of from_fieldlist
\*   tn.op      the last operation, tn.args its arguments
\*   tn.cur     the tensor the caller holds: the one the selection methods
\*              are called on, as it was before the call
\*   tn.owner   the object tn.cur as the last call left it
\*   tn.err     "none" or the exception the last operation raised
\*   tn.res     the tensor the last operation returned
\* ------------------------------------------------------------------------

\* longest tuple given to __getitem__
MaxIdx == 2

DimNames == {"date", "level"}

\* the dimension-name arguments of from_fieldlist
NameLists == {<<"date">>, <<"level">>, <<"date", "level">>, <<"level", "date">>}

FieldLists == SeqsOf(Fields, 1, MaxFields)

\* the user_dims_and_coords arguments of from_fieldlist: none (<<>>), and
\* coordinates a caller computed for the date dimension, in the order the
\* caller has them
UserDimsAndCoords ==
    {<<>>,
     <<[name |-> "date", vals |-> <<20210101, 20210102>>]>>,
     <<[name |-> "date", vals |-> <<20210102, 20210101>>]>>}

\* the positions used in selectors: the dimensions have at most two
\* coordinate values, so that 1 is a valid or an out-of-range position
IntSels == {IntSel(n) : n \in {-1, 0, 1}}

Selectors ==
    IntSels
    \cup {SliceAll, SliceSel(<<1>>, <<>>)}
    \cup {ListSel(<<0, 1>>)}
    \cup {EllipsisSel}

GetitemArgs ==
    {[kind |-> "int", items |-> <<s>>] : s \in IntSels}
    \cup {[kind |-> "tuple", items |-> x] : x \in SeqsOf(Selectors, 0, MaxIdx)}
    \cup {[kind |-> "list", items |-> x] :
            x \in {<<>>} \cup {<<s>> : s \in IntSels}
                  \cup {<<IntSel(0), s>> : s \in IntSels}}

\* the values of the keyword name in isel() and in sel() calls
IselValues(name) == Selectors

SelValues(name) ==
    IF name = "date" THEN {<<20210101>>, <<20210101, 20210102>>}
    ELSE {<<850>>, <<1000>>, <<700>>, <<850, 1000>>}

\* keyword mappings over the dimension names: none, one or both given
IselArgs ==
    {<<>>}
    \cup {<<[k |-> n, v |-> x]>> : n \in DimNames, x \in Selectors}
    \cup {<<[k |-> "date", v |-> x], [k |-> "level", v |-> y]>> :
            x \in IselValues("date"), y \in IselValues("level")}

SelArgs ==
    {<<>>}
    \cup {<<[k |-> "date", v |-> x]>> : x \in SelValues("date")}
    \cup {<<[k |-> "level", v |-> x]>> : x \in SelValues("level")}
    \cup {<<[k |-> "date", v |-> x], [k |-> "level", v |-> y]>> :
            x \in SelValues("date"), y \in SelValues("level")}

TnState(pc, ds, op, args, cur, owner, err, res) ==
    [pc |-> pc, ds |-> ds, op |-> op, args |-> args, cur |-> cur,
     owner |-> owner, err |-> err, res |-> res]

Init ==
    /\ \E ds \in FieldLists :
          tn = TnState("new", ds, "none", <<>>, NullTensor, NullTensor,
                       "none", NullTensor)
    /\ ix = IxIdle
    /\ dm = DmIdle
    /\ sp = SpIdle
    /\ ob = ObIdle

FromFieldlist ==
    /\ tn.pc = "new"
    /\ \E names \in NameLists, sort \in BOOLEAN, flatten_values \in BOOLEAN,
          user_dims_and_coords \in UserDimsAndCoords :
          LET r == from_fieldlist(tn.ds, names, sort, flatten_values,
                                  user_dims_and_coords)
          IN tn' = TnState(IF r.err = "none" THEN "built" ELSE "failed",
                           tn.ds, "from_fieldlist",
                           [names |-> names, sort |-> sort,
                            flatten_values |-> flatten_values,
                            user_dims_and_coords |-> user_dims_and_coords],
                           NullTensor, NullTensor, r.err, r.t)
    /\ UNCHANGED <<ix, dm, sp, ob>>

\* the caller goes on with one of the tensors it has: the one returned
\* last, or the one the last method was called on
Rebind ==
    /\ tn.pc \in {"built", "called"}
    /\ \E t \in (IF tn.err = "none" THEN {tn.res} ELSE {})
                \cup (IF tn.pc = "called" THEN {tn.owner} ELSE {}) :
          tn' = TnState("ready", <<>>, "none", <<>>, t, NullTensor,
                        "none", NullTensor)
    /\ UNCHANGED <<ix, dm, sp, ob>>

Called(op, args, out) ==
    tn' = TnState("called", <<>>, op, args, tn.cur, out.self, out.err, out.t)

Getitem ==
    /\ tn.pc = "ready"
    /\ \E arg \in GetitemArgs : Called("getitem", arg, getitem(tn.cur, arg))
    /\ UNCHANGED <<ix, dm, sp, ob>>

Sel ==
    /\ tn.pc = "ready"
    /\ \E kwargs \in SelArgs : Called("sel", kwargs, sel(tn.cur, kwargs))
    /\ UNCHANGED <<ix, dm, sp, ob>>

Isel ==
    /\ tn.pc = "ready"
    /\ \E kwargs \in IselArgs : Called("isel", kwargs, isel(tn.cur, kwargs))
    /\ UNCHANGED <<ix, dm, sp, ob>>

Copy ==
    /\ tn.pc = "ready"
    /\ Called("copy", <<>>, copy(tn.cur))
    /\ UNCHANGED <<ix, dm, sp, ob>>

Next == FromFieldlist \/ Rebind \/ Getitem \/ Sel \/ Isel \/ Copy

Spec == Init /\ [][Next]_vars

\* ------------------------------------------------------------------------
\* Specification SpecIndex: the two translation functions applied to inputs
\* drawn from bounded sets.
\*   ix.shape   the shape
\*   ix.from    "coords" when the run starts from a coordinate tuple,
\*              "index" when it starts from a flat index
\*   ix.c0/i0   the input tuple / the input flat index
\*   ix.coords  the tuple last returned by index_to_coords (or the input)
\*   ix.index   the flat index last returned by coords_to_index (or the input)
\*   ix.pc      "start", "half" (one function applied), "done" (both)
\* ------------------------------------------------------------------------

Shapes == SeqsOf(1..MaxSize, 1, 4) \cap UNION {Tuples(1..MaxSize, n) : n \in ShapeLens}

\* the valid coordinate tuples under a shape: 0 <= c[k] < shape[k]
ValidCoords(shape) ==
    {c \in Tuples(0..(MaxSize - 1), Len(shape)) :
        \A k \in 1..Len(shape) : c[k] < shape[k]}

InitIndex ==
    /\ \E shape \in Shapes :
         \/ \E c \in ValidCoords(shape) :
               ix = [shape |-> shape, from |-> "coords", c0 |-> c, i0 |-> 0,
                     coords |-> c, index |-> 0, pc |-> "start"]
         \/ \E i \in 0..(Prod(shape) - 1) :
               ix = [shape |-> shape, from |-> "index", c0 |-> <<>>, i0 |-> i,
                     coords |-> <<>>, index |-> i, pc |-> "start"]
    /\ tn = TnIdle
    /\ dm = DmIdle
    /\ sp = SpIdle
    /\ ob = ObIdle

\* index = coords_to_index(coords, shape)
CallCoordsToIndex ==
    /\ \/ ix.from = "coords" /\ ix.pc = "start"
       \/ ix.from = "index" /\ ix.pc = "half"
    /\ ix' = [ix EXCEPT !.index = coords_to_index(ix.coords, ix.shape),
                        !.pc = IF ix.pc = "start" THEN "half" ELSE "done"]
    /\ UNCHANGED <<tn, dm, sp, ob>>

\* coords = index_to_coords(index, shape)
CallIndexToCoords ==
    /\ \/ ix.from = "index" /\ ix.pc = "start"
       \/ ix.from = "coords" /\ ix.pc = "half"
    /\ ix' = [ix EXCEPT !.coords = index_to_coords(ix.index, ix.shape),
                        !.pc = IF ix.pc = "start" THEN "half" ELSE "done"]
    /\ UNCHANGED <<tn, dm, sp, ob>>

NextIndex == CallCoordsToIndex \/ CallIndexToCoords

SpecIndex == InitIndex /\ [][NextIndex]_vars

\* c precedes d lexicographically (first differing position decides)
LexLess(c, d) ==
    \E k \in 1..Len(c) :
        /\ c[k] < d[k]
        /\ \A j \in 1..(k - 1) : c[j] = d[j]

\* C2: for every shape of 1 to 4 dimensions (size-1 dimensions included)
\* and every valid coordinate tuple c,
\* index_to_coords(coords_to_index(c, shape), shape) = c.
C2_RoundTrip ==
    (ix.from = "coords" /\ ix.pc = "done") => ix.coords = ix.c0

\* a round trip over a 4-dimensional shape with a size-1 dimension and a
\* non-zero coordinate has been completed
C2_Witness ==
    /\ ix.from = "coords" /\ ix.pc = "done"
    /\ Len(ix.shape) = 4
    /\ \E k \in 1..4 : ix.shape[k] = 1
    /\ \E k \in 1..4 : ix.c0[k] > 0
    /\ ix.coords = ix.c0

\* C3: coords_to_index is row-major with the last dimension varying
\* fastest: the flat index of c is below the flat index of d exactly when c
\* precedes d lexicographically, and for every flat index i in
\* [0, product(shape)), coords_to_index(index_to_coords(i, shape), shape) = i.
C3_RowMajor ==
    /\ (ix.from = "coords" /\ ix.pc = "half") =>
          \A d \in ValidCoords(ix.shape) :
              (ix.index < coords_to_index(d, ix.shape)) <=> LexLess(ix.c0, d)
    /\ (ix.from = "index" /\ ix.pc = "done") => ix.index = ix.i0

\* both halves of C3 happen: a non-symmetric shape translated from a tuple
\* with distinct entries, or a round trip from a non-zero flat index
C3_Witness ==
    \/ /\ ix.from = "index" /\ ix.pc = "done" /\ ix.i0 > 2
       /\ Len(ix.shape) = 3 /\ ix.index = ix.i0
    \/ /\ ix.from = "coords" /\ ix.pc = "half"
       /\ ix.shape = <<2, 3>> /\ ix.c0 = <<1, 0>> /\ ix.index = 3

\* ------------------------------------------------------------------------
\* Claims about the tensor (specification Spec)
\* ------------------------------------------------------------------------

\* the tensor from_fieldlist hands to the consistency check, recomputed from
\* the recorded call
Attempted ==
    LET names == tn.args.names
    IN [source |-> IF names # <<>> /\ tn.args.sort
                   THEN order_by(tn.ds, names) ELSE tn.ds,
        user_shape |-> IF tn.args.user_dims_and_coords # <<>>
                       THEN [k \in 1..Len(tn.args.user_dims_and_coords) |->
                                Len(tn.args.user_dims_and_coords[k].vals)]
                       ELSE [k \in 1..Len(names) |->
                                Cardinality(unique_values(tn.ds, names[k]))]]

C4_SelectionFrame ==
    (tn.pc = "called") =>
        /\ tn.owner.user_coords = tn.cur.user_coords
        /\ tn.owner.user_shape = tn.cur.user_shape
        /\ tn.owner.field_dims = tn.cur.field_dims
        /\ tn.owner.source = tn.cur.source
        /\ (tn.err = "none") =>
              /\ tn.res.field_coords = tn.cur.field_coords
              /\ tn.res.field_dims = tn.cur.field_dims
              /\ tn.res.field_shape = tn.cur.field_shape

\* a selection has returned a tensor smaller than the one it was called on,
\* which has a two-dimensional field grid
C4_Witness ==
    /\ tn.pc = "called" /\ tn.err = "none"
    /\ tn.op \in {"sel", "isel", "getitem"}
    /\ Len(tn.cur.source) = 4
    /\ Len(tn.res.source) = 2
    /\ Len(tn.cur.field_shape) = 2
    /\ tn.owner = tn.cur

\* the coordinate values of dimension d of tensor t
CoordsOf(t, d) ==
    t.user_coords[CHOOSE i \in 1..Len(t.user_coords) : t.user_coords[i].name = d].vals

\* the 0-based positions of label v in a coordinate sequence
PositionsOf(vals, v) == {p \in 0..(Len(vals) - 1) : vals[p + 1] = v}

\* C5: for a tensor with a dimension d and a label v occurring exactly once,
\* at position p, in user_coords[d], sel(d=v) and isel(d=p) return tensors
\* with the same user_coords and the same ordered selection of fields.
C5_SelIselEquivalent ==
    (/\ tn.op = "sel"
     /\ Len(tn.args) = 1
     /\ Len(tn.args[1].v) = 1
     /\ HasKey(tn.cur.user_coords, tn.args[1].k)
     /\ Cardinality(PositionsOf(CoordsOf(tn.cur, tn.args[1].k), tn.args[1].v[1])) = 1)
    => LET d == tn.args[1].k
           p == CHOOSE q \in PositionsOf(CoordsOf(tn.cur, d), tn.args[1].v[1]) : TRUE
           o == isel(tn.cur, <<[k |-> d, v |-> IntSel(p)]>>)
       IN /\ o.err = tn.err
          /\ o.t.user_coords = tn.res.user_coords
          /\ o.t.source = tn.res.source
          /\ (Len(tn.cur.source) = Prod(tn.cur.user_shape)) => tn.err = "none"

\* sel(level=850) on a tensor with levels [850, 1000] and two dates returned
\* the two fields of level 850
C5_Witness ==
    /\ tn.op = "sel" /\ tn.err = "none"
    /\ tn.args = <<[k |-> "level", v |-> <<850>>]>>
    /\ MapKeys(tn.cur.user_coords) = <<"date", "level">>
    /\ CoordsOf(tn.cur, "level") = <<850, 1000>>
    /\ Len(tn.cur.source) = 4
    /\ CoordsOf(tn.res, "level") = <<850>>
    /\ Len(tn.res.source) = 2

\* the fields of tensor t at the flat indices of the cartesian product of
\* the per-dimension positions pos
FieldsAt(t, pos) ==
    LET tuples == product(pos)
    IN [j \in 1..Len(tuples) |->
           t.source[coords_to_index(tuples[j], t.user_shape) + 1]]

\* the selectors of a call, one per dimension of tn.cur, for the calls that
\* give them directly (__getitem__ with a full tuple, isel)
GivenSelectors ==
    IF tn.op = "isel"
    THEN [i \in 1..Len(tn.cur.user_coords) |->
            IF KwHas(tn.args, tn.cur.user_coords[i].name)
            THEN KwGet(tn.args, tn.cur.user_coords[i].name).v ELSE SliceAll]
    ELSE tn.args.items

\* C6: selection with a list-valued selector works on a FieldListTensor:
\* isel(d=[p1..pn]), __getitem__ with a list for dimension d, and
\* sel(d=[v1..vn]) matching several values each return a new tensor whose
\* user_coords[d] holds the coordinate values at the selected positions and
\* whose fields are those at the corresponding flat indices.
C6_ListSelection ==
    /\ (/\ tn.pc = "called"
        /\ \/ tn.op = "isel"
           \/ tn.op = "getitem" /\ tn.args.kind = "tuple"
                 /\ Len(tn.args.items) = Len(tn.cur.user_shape)
        /\ Len(tn.cur.source) = Prod(tn.cur.user_shape)
        /\ \A i \in 1..Len(tn.cur.user_shape) :
              /\ GivenSelectors[i].t \in {"int", "slice", "list"}
              /\ np_positions(GivenSelectors[i], tn.cur.user_shape[i]).err = "none"
        /\ \E i \in 1..Len(tn.cur.user_shape) : GivenSelectors[i].t = "list")
       => LET pos == [i \in 1..Len(tn.cur.user_shape) |->
                        np_positions(GivenSelectors[i], tn.cur.user_shape[i]).lst]
          IN /\ tn.err = "none"
             /\ \A i \in 1..Len(tn.cur.user_shape) :
                   tn.res.user_coords[i].vals =
                      [j \in 1..Len(pos[i]) |-> tn.cur.user_coords[i].vals[pos[i][j] + 1]]
             /\ tn.res.source = FieldsAt(tn.cur, pos)
    /\ (/\ tn.op = "sel"
        /\ Len(tn.args) = 1
        /\ HasKey(tn.cur.user_coords, tn.args[1].k)
        /\ Len(tn.cur.source) = Prod(tn.cur.user_shape)
        /\ \A j \in 1..Len(tn.args[1].v) :
              PositionsOf(CoordsOf(tn.cur, tn.args[1].k), tn.args[1].v[j]) # {}
        /\ Len(tn.args[1].v) > 1)
       => /\ tn.err = "none"
          /\ CoordsOf(tn.res, tn.args[1].k) = tn.args[1].v

\* the argument of __getitem__ as the claim normalises it: a trailing
\* Ellipsis dropped, the first n selectors kept, the missing ones select-all
Normalised(items, n) ==
    LET a == IF items # <<>> /\ items[Len(items)].t = "ellipsis"
             THEN SubSeq(items, 1, Len(items) - 1) ELSE items
    IN [k \in 1..n |-> IF k <= Len(a) THEN a[k] ELSE SliceAll]

StrictlyAscending(vals) ==
    \A i, j \in 1..Len(vals) : i < j => vals[i] < vals[j]

\* field i (0-based) of the source of tensor carries, for every dimension
\* k, the coordinate value user_coords[k][index_to_coords(i, user_shape)[k]]
FieldCarriesCoords(tensor, i) ==
    \A k \in 1..Len(tensor.user_coords) :
        metadata(tensor.source[i + 1], tensor.user_coords[k].name)
            = index_to_coords_value(i, tensor)[k]

\* C19: the tensor from_fieldlist builds for dimension names has, for
\* every requested key, user_coords that are strictly ascending without
\* duplicates, and every field of its source carries the coordinate values
\* found at its flat index (coordinate order matches field order), also
\* when sort=False or user_dims_and_coords is given.
C19_CoordsMatchFields ==
    (tn.op = "from_fieldlist" /\ tn.err = "none") =>
        /\ Len(tn.res.user_coords) = Len(tn.args.names)
        /\ \A k \in 1..Len(tn.res.user_coords) :
              /\ tn.res.user_coords[k].name = tn.args.names[k]
              /\ StrictlyAscending(tn.res.user_coords[k].vals)
        /\ \A i \in 0..(Len(tn.res.source) - 1) :
              FieldCarriesCoords(tn.res, i)

\* the positions of a dimension of size c an int or slice selector s
\* retains, ascending: the position itself (counted from the end when
\* negative) for an int, the positions from the lower bound up to the upper
\* bound (excluded) for a slice
KeptPositions(s, c) ==
    IF s.t = "int" THEN <<IF s.v < 0 THEN s.v + c ELSE s.v>>
    ELSE LET norm(x) == IF x < 0 THEN x + c ELSE x
             lo == IF s.a = <<>> THEN 0 ELSE norm(s.a[1])
             hi == IF s.b = <<>> THEN c ELSE norm(s.b[1])
         IN sorted({p \in 0..(c - 1) : lo <= p /\ p < hi})

\* the selectors of a selection call with int and slice selectors only, one
\* per dimension of tn.cur
IntSliceSelectors ==
    IF tn.op = "getitem" THEN Normalised(tn.args.items, Len(tn.cur.user_shape))
    ELSE GivenSelectors

\* a selection call with int and slice selectors that are in range
IntSliceCall ==
    /\ tn.pc = "called"
    /\ tn.op \in {"isel", "getitem"}
    /\ tn.op = "getitem" => tn.args.items # <<>>
    /\ \A i \in 1..Len(tn.cur.user_shape) :
          /\ IntSliceSelectors[i].t \in {"int", "slice"}
          /\ IntSliceSelectors[i].t = "int" =>
                InRange(IntSliceSelectors[i].v, tn.cur.user_shape[i])

C20_CopyKeepsCoords ==
    (tn.pc = "called" /\ tn.op = "copy") =>
        /\ tn.err = "none"
        /\ tn.res.coords = tn.cur.user_coords
        /\ tn.res.field_shape = tn.cur.field_shape
        /\ tn.res.user_coords = tn.cur.user_coords
        /\ tn.owner = tn.cur

\* ------------------------------------------------------------------------
\* Specification SpecDims: a Dims is constructed from a configuration, and
\* then its dimensions and the collection receive check, update,
\* deactivate and remove calls.
\*   dm.pc    "new" before construction, "ready" after a successful one,
\*            "failed" after one that raised
\*   dm.objs  the Dim objects, dm.dims the mapping Dims.dims
\*   dm.pass  the mapping the check loop ran over and the objects as the
\*            loop left them (empty when no check loop ran)
\*   dm.last  the call that has just been made: its name, the Dim it was
\*            made on, whether that Dim was active when the call was made,
\*            the field list it was given, its error ("none" as the name once the call has returned)
\* ------------------------------------------------------------------------

MaxKnobs == 2

DefaultConfig ==
    [variable_key |-> "param", extra_dims |-> <<>>, ensure_dims |-> <<>>,
     drop_dims |-> <<>>, fixed_dims |-> <<>>, split_dims |-> <<>>,
     time_dim_mode |-> "raw", level_dim_mode |-> "level", squeeze |-> TRUE]

ConfigValues ==
    [variable_key : {"param", "param_level", "level"},
     extra_dims : {<<>>, <<"valid_time">>, <<"date", "valid_time">>,
                   <<"valid_time", "date">>, <<"stream", "expver">>},
     ensure_dims : {<<>>, <<"step">>},
     drop_dims : {<<>>, <<"step">>},
     fixed_dims : {<<>>, <<"date", "levelist">>, <<"date", "valid_time">>,
                   <<"valid_time", "date">>},
     split_dims : {<<>>},
     time_dim_mode : {"raw", "forecast", "valid_time", "bogus"},
     level_dim_mode : {"level", "level_per_type", "level_and_type", "bogus"},
     squeeze : BOOLEAN]

\* the configurations that differ from the default in at most MaxKnobs settings
Configs ==
    {c \in ConfigValues :
        Cardinality({f \in DOMAIN DefaultConfig : c[f] # DefaultConfig[f]}) <= MaxKnobs}

DsFamily ==
    {[one |-> {"time", "step", "number"},
      many |-> {"param", "date", "levelist", "valid_time",
                "forecast_reference_time"}],
     [one |-> {"date"}, many |-> {"param", "levelist"}],
     [one |-> {}, many |-> {}]}

KeySets == {{"date"}, {"valid_time"}, {"levelist", "number"}}

\* the ignore_dim arguments: None and the dimensions that hold one of the
\* keys (to ignore any other dimension is to ignore none)
IgnoreDims(keys) ==
    {NoDim} \cup {o \in DOMAIN dm.objs : \E key \in keys : Contains(dm.objs[o], key)}

NoPass == [dims |-> <<>>, objs |-> <<>>]

\* no field list: the call took none
NoDs == [one |-> {}, many |-> {}]

DmState(pc, cfg, objs, dims, pass, op, o, err) ==
    [pc |-> pc, cfg |-> cfg, objs |-> objs, dims |-> dims, pass |-> pass,
     last |-> [op |-> op, o |-> o, was |-> TRUE, ds |-> NoDs, err |-> err]]

InitDims ==
    /\ ix = IxIdle
    /\ tn = TnIdle
    /\ sp = SpIdle
    /\ ob = ObIdle
    /\ \E cfg \in Configs :
          dm = DmState("new", cfg, <<>>, <<>>, NoPass, "none", NoDim, "none")

\* the check loop of Dims.__init__ (lines 563-564)
RECURSIVE check_loop(_, _, _)
check_loop(objs, dims, j) ==
    IF j > Len(dims) THEN objs
    ELSE check_loop(Dim_check(objs, dims, dims[j].o), dims, j + 1)

\* the heap and the mapping made of a sequence of entries [mk, d]
HeapOf(entries) == [j \in DOMAIN entries |-> entries[j].d]

RefsOf(entries) == [j \in DOMAIN entries |-> Ref(entries[j].mk, j)]

\* Dims.__init__
Dims_init ==
    /\ dm.pc = "new"
    /\ LET cfg == dm.cfg
           f == Dims_init_fixed_dims(cfg)
           r == Dims_init_dims(cfg)
           entries == <<Entry("__var_key_dim__", r.var_key_dim)>> \o r.dims
           dims == RefsOf(entries)
           checked == check_loop(HeapOf(entries), dims, 1)
           pass == [dims |-> dims, objs |-> checked]
           fin == Dims_init_finish(checked, dims, r.core_dim_order, cfg.variable_key)
       IN dm' = IF cfg.fixed_dims # <<>>
                THEN IF f.err # "none"
                     THEN DmState("failed", cfg, <<>>, <<>>, NoPass, "init", NoDim, f.err)
                     ELSE DmState("ready", cfg, HeapOf(f.dims), RefsOf(f.dims),
                                  NoPass, "init", NoDim, "none")
                ELSE IF r.err # "none"
                     THEN DmState("failed", cfg, <<>>, <<>>, NoPass, "init", NoDim, r.err)
                     ELSE IF fin.err # "none"
                     THEN DmState("failed", cfg, fin.objs, dims, pass, "init", NoDim,
                                  fin.err)
                     ELSE DmState("ready", cfg, fin.objs, fin.dims, pass, "init",
                                  NoDim, "none")
    /\ UNCHANGED <<ix, tn, sp, ob>>

\* d.check() on a Dim of the collection
DimCheck ==
    /\ dm.pc = "ready"
    /\ dm.last.op \in {"init", "none"}
    /\ \E o \in DOMAIN dm.objs :
          dm' = [dm EXCEPT !.objs = Dim_check(dm.objs, dm.dims, o),
                           !.last = [op |-> "check", o |-> o, was |-> dm.objs[o].active,
                                     ds |-> NoDs,
                                     err |-> "none"]]
    /\ UNCHANGED <<ix, tn, sp, ob>>

\* d.update(ds) on a Dim of the collection
DimUpdate ==
    /\ dm.pc = "ready"
    /\ dm.last.op \in {"init", "none"}
    /\ \E o \in DOMAIN dm.objs, ds \in DsFamily :
          LET r == Dim_update(dm.objs, o, ds, dm.cfg.variable_key)
          IN dm' = [dm EXCEPT !.objs = r.objs,
                              !.last = [op |-> "update", o |-> o,
                                        was |-> dm.objs[o].active, ds |-> ds,
                                        err |-> r.err]]
    /\ UNCHANGED <<ix, tn, sp, ob>>

\* dims.deactivate(keys, ignore_dim, others)
DimsDeactivate ==
    /\ dm.pc = "ready"
    /\ dm.last.op \in {"init", "none"}
    /\ \E keys \in KeySets, others \in BOOLEAN : \E ignore_dim \in IgnoreDims(keys) :
          dm' = [dm EXCEPT
                   !.objs = Dims_deactivate(dm.objs, dm.dims, keys, ignore_dim,
                                            others).objs,
                   !.last = [op |-> "Dims.deactivate", o |-> NoDim, was |-> TRUE,
                             ds |-> NoDs,
                             err |-> "none"]]
    /\ UNCHANGED <<ix, tn, sp, ob>>

\* dims.remove(keys, ignore_dim, others)
DimsRemove ==
    /\ dm.pc = "ready"
    /\ dm.last.op \in {"init", "none"}
    /\ \E keys \in KeySets, others \in BOOLEAN : \E ignore_dim \in IgnoreDims(keys) :
          LET r == Dims_remove(dm.objs, dm.dims, keys, ignore_dim, others)
          IN dm' = [dm EXCEPT
                      !.objs = r.objs, !.dims = r.dims,
                      !.last = [op |-> "Dims.remove", o |-> NoDim, was |-> TRUE,
                                ds |-> NoDs,
                                err |-> "none"]]
    /\ UNCHANGED <<ix, tn, sp, ob>>

\* dims.update(ds)
DimsUpdate ==
    /\ dm.pc = "ready"
    /\ dm.last.op \in {"init", "none"}
    /\ \E ds \in DsFamily :
          LET r == Dims_update(dm.objs, dm.dims, ds, dm.cfg.variable_key)
          IN dm' = [dm EXCEPT
                      !.objs = r.objs, !.dims = r.dims,
                      !.last = [op |-> "Dims.update", o |-> NoDim, was |-> TRUE,
                                ds |-> ds,
                                err |-> r.err]]
    /\ UNCHANGED <<ix, tn, sp, ob>>

\* the call returns: the caller goes on with the collection as the call
\* left it
Return ==
    /\ dm.pc = "ready"
    /\ dm.last.op \notin {"init", "none"}
    /\ dm' = [dm EXCEPT !.last = [op |-> "none", o |-> NoDim, was |-> TRUE,
                                   ds |-> NoDs,
                                   err |-> "none"]]
    /\ UNCHANGED <<ix, tn, sp, ob>>

NextDims ==
    Dims_init \/ DimCheck \/ DimUpdate \/ DimsDeactivate \/ DimsRemove \/ DimsUpdate
    \/ Return

SpecDims == InitDims /\ [][NextDims]_vars

\* ------------------------------------------------------------------------
\* Claims on Dim and Dims (specification SpecDims)
\* ------------------------------------------------------------------------

\* A drops B: one of A's drop keys is B's name, B's key or one of B's aliases
Conflict(A, B) == \E key \in A.drop : Contains(B, key)

Constructed == dm.pc = "ready" /\ dm.last.op = "init"

\* C8: the active flag of a Dim is one-way. In every step (a check, update,
\* Dims.deactivate, Dims.remove or Dims.update call, or the construction) a
\* Dim that is inactive stays inactive, and a check or update call on an
\* inactive Dim leaves every Dim and the mapping as they were.
C8_ActiveOneWay ==
    [][/\ \A o \in DOMAIN dm.objs :
            ~dm.objs[o].active => (o \in DOMAIN dm'.objs /\ ~dm'.objs[o].active)
       /\ (dm.pc = "ready" /\ dm'.last.op \in {"check", "update"}
            /\ ~dm.objs[dm'.last.o].active)
           => (dm'.objs = dm.objs /\ dm'.dims = dm.dims)]_vars

\* a check call was made on an inactive Dim whose drop keys match another,
\* active Dim of the mapping: the call a live Dim would have acted on
C8_Witness ==
    /\ dm.pc = "ready"
    /\ dm.last.op = "check"
    /\ ~dm.last.was
    /\ \E e \in SeqToSet(dm.dims) :
          /\ e.o # dm.last.o
          /\ dm.objs[e.o].active
          /\ Conflict(dm.objs[dm.last.o], dm.objs[e.o])

C10_DateValidTimeOrder ==
    dm.last.op = "init" =>
        \A a \in DOMAIN dm.pass.dims, b \in DOMAIN dm.pass.dims :
            LET A == dm.pass.objs[dm.pass.dims[a].o]
                B == dm.pass.objs[dm.pass.dims[b].o]
            IN (A.name = "date" /\ B.name = "valid_time") =>
                  /\ a < b => (A.active /\ ~B.active)
                  /\ b < a => (B.active /\ ~A.active)

\* C11: after every successful construction of Dims, with fixed_dims too,
\* and after every Dims.update() that returned, no active dimension of the
\* mapping has the variable key as its name, its key or one of its aliases.
C11_VariableKeyNotActive ==
    (dm.pc = "ready" /\ dm.last.op \in {"init", "Dims.update"} /\ dm.last.err = "none")
    => \A e \in SeqToSet(dm.dims) :
          dm.objs[e.o].active => ~Contains(dm.objs[e.o], dm.cfg.variable_key)

\* the candidate dimensions of a construction: the fixed dimensions, or
\* the mapping the check loop ran over without the variable key's own entry
Candidates ==
    IF dm.cfg.fixed_dims # <<>>
    THEN {dm.objs[e.o] : e \in SeqToSet(dm.dims)}
    ELSE {dm.pass.objs[e.o] : e \in {x \in SeqToSet(dm.pass.dims) :
                                         x.mk # "__var_key_dim__"}}

\* C12: whenever the variable key is the name, the key or an alias of a
\* candidate dimension, the construction of Dims fails with the ValueError
\* that names the conflict; the dimension is never silently deactivated.
C12_VariableKeyConflictFatal ==
    (dm.last.op = "init"
     /\ \E d \in Candidates : Contains(d, dm.cfg.variable_key))
    => (dm.pc = "failed" /\ dm.last.err = "ValueError")

\* C13: in a Dims.update(ds) that returns, an active dimension of the
\* mapping whose key has exactly one distinct value in ds is deactivated and
\* removed from the mapping when squeeze is enabled and its key is not in
\* ensure_dims, and stays an active dimension of the mapping otherwise.
C13_SqueezeSingleValue ==
    [][(dm.pc = "ready" /\ dm'.last.op = "Dims.update" /\ dm'.last.err = "none")
       => \A e \in SeqToSet(dm.dims) :
             (dm.objs[e.o].active
              /\ ds_index_len(dm'.last.ds, dm.objs[e.o].key) = 1)
             => IF dm.cfg.squeeze
                   /\ dm.objs[e.o].key \notin SeqToSet(dm.cfg.ensure_dims)
                THEN ~dm'.objs[e.o].active /\ e \notin SeqToSet(dm'.dims)
                ELSE dm'.objs[e.o].active /\ e \in SeqToSet(dm'.dims)]_vars

\* C14: in every Dims.update(ds), an active dimension of the
\* mapping whose key has no value in ds is deactivated and no error is
\* raised, and when update() returns the mapping holds exactly the
\* dimensions it held before that are still active, in their previous order.
C14_UpdateDropsAbsent ==
    [][(dm.pc = "ready" /\ dm'.last.op = "Dims.update")
       => /\ \A e \in SeqToSet(dm.dims) :
                (dm.objs[e.o].active
                 /\ ds_index_len(dm'.last.ds, dm.objs[e.o].key) = 0)
                => (dm'.last.err = "none" /\ ~dm'.objs[e.o].active)
          /\ dm'.last.err = "none"
             => dm'.dims = SelectSeq(dm.dims, LAMBDA e : dm'.objs[e.o].active)]_vars

\* the position of the first x in the sequence q
FirstPos(q, x) ==
    CHOOSE i \in DOMAIN q : q[i] = x /\ \A h \in 1..(i - 1) : q[h] # x

Before(q, a, b) ==
    a \in SeqToSet(q) /\ b \in SeqToSet(q) /\ FirstPos(q, a) < FirstPos(q, b)

\* the request order: extra_dims, then ensure_dims
RequestOrder == dm.cfg.extra_dims \o dm.cfg.ensure_dims

\* the registration order of the policy dimensions: the ensemble number,
\* the dimensions of the time modes, the dimension of the level modes
RegistrationOrder ==
    <<"number", "forecast_reference_time", "date", "time", "step", "valid_time",
      "levelist", "level_per_type", "level_and_type">>

\* the core dimensions of a configuration: those of its policy modes
CoreKeys ==
    {"number"}
    \cup (CASE dm.cfg.time_dim_mode = "forecast" -> {"forecast_reference_time", "step"}
            [] dm.cfg.time_dim_mode = "valid_time" -> {"valid_time"}
            [] dm.cfg.time_dim_mode = "raw" -> {"date", "time", "step"}
            [] OTHER -> {})
    \cup (CASE dm.cfg.level_dim_mode = "level" -> {"levelist"}
            [] dm.cfg.level_dim_mode \in {"level_per_type", "level_and_type"} ->
                  {dm.cfg.level_dim_mode}
            [] OTHER -> {})

C16_UnknownModeFatal ==
    (dm.last.op = "init"
     /\ (dm.cfg.time_dim_mode \notin {"forecast", "valid_time", "raw"}
         \/ dm.cfg.level_dim_mode \notin {"level", "level_per_type", "level_and_type"}))
    => (dm.pc = "failed" /\ dm.last.err = "ValueError")

\* C17: in a construction of Dims without fixed_dims, for the time axis and
\* for the level axis the builder's used set holds the dimensions of the
\* selected mode only, its ignored set holds exactly the other modes of the
\* axis (not the selected one), built as inactive dimensions, and no
\* dimension of an ignored mode is in the final mapping.
C17_OneModeUsed ==
    (Constructed /\ dm.cfg.fixed_dims = <<>>)
    => LET time == TimeDimBuilder(dm.cfg.time_dim_mode)
           level == LevelDimBuilder(dm.cfg.level_dim_mode)
       IN /\ {"number"} \cup MapKeysOf(time.used) \cup MapKeysOf(level.used) = CoreKeys
          /\ DOMAIN time.ignored
                = {"forecast", "valid_time", "raw"} \ {dm.cfg.time_dim_mode}
          /\ DOMAIN level.ignored
                = {"level", "level_per_type", "level_and_type"} \ {dm.cfg.level_dim_mode}
          /\ \A k \in DOMAIN time.ignored :
                \A j \in DOMAIN time.ignored[k] : ~time.ignored[k][j].d.active
          /\ \A k \in DOMAIN level.ignored :
                \A j \in DOMAIN level.ignored[k] : ~level.ignored[k][j].d.active
          /\ \A e \in SeqToSet(dm.dims) : dm.objs[e.o].active

\* C21: after the construction of Dims with a compound variable key
\* (param_level), every dimension whose name, key or alias is one of the
\* keys of the compound key is inactive, and none of them is among the
\* dimensions the collection retains.
C21_CompoundKeySuppresses ==
    (/\ dm.pc = "ready" /\ dm.last.op = "init"
     /\ CompoundKey_keys(dm.cfg.variable_key) # {}) =>
        /\ \A o \in DOMAIN dm.objs :
              (\E k \in CompoundKey_keys(dm.cfg.variable_key) :
                  Contains(dm.objs[o], k)) => ~dm.objs[o].active
        /\ \A e \in SeqToSet(dm.dims) :
              \A k \in CompoundKey_keys(dm.cfg.variable_key) :
                  ~Contains(dm.objs[e.o], k)

\* the Dim objects as the check loop of the last construction found them
PassStart ==
    LET r == Dims_init_dims(dm.cfg)
    IN HeapOf(<<Entry("__var_key_dim__", r.var_key_dim)>> \o r.dims)

\* C23: in the check pass the dimension checked first wins: when A comes
\* before B in the mapping, both are predefined dimensions that are active
\* when the pass starts, and A's drop set holds B's name, key or an alias of
\* B, then at the end of the pass A is active and B is inactive.
C23_FirstCheckedWins ==
    (dm.last.op = "init" /\ dm.pass.dims # <<>>) =>
        \A a, b \in DOMAIN dm.pass.dims :
            LET A == PassStart[dm.pass.dims[a].o]
                B == PassStart[dm.pass.dims[b].o]
            IN (/\ a < b
                /\ A.active /\ B.active
                /\ PREDEFINED_DIMS(A.name) # "" /\ PREDEFINED_DIMS(B.name) # ""
                /\ \E k \in A.drop : Contains(B, k))
               => /\ dm.pass.objs[dm.pass.dims[a].o].active
                  /\ ~dm.pass.objs[dm.pass.dims[b].o].active

\* ------------------------------------------------------------------------
\* Specification SpecKinds: two dimensions of the predefined kinds are
\* constructed the way the code constructs them.
\*   ob.pc    "new" before, "made" after the construction
\*   ob.a, ob.b   the two kinds, ob.A, ob.B the Dim objects
\* ------------------------------------------------------------------------

\* the names make_dim constructs a predefined dimension for
MakeDimNames ==
    {"forecast_reference_time", "date", "time", "step", "valid_time"}
    \cup ENS_KEYS \cup LEVEL_KEYS

\* the predefined kinds: the names of make_dim, the two level kinds the
\* level modes construct, and the two classes constructed directly
Kinds ==
    {[via |-> "make_dim", n |-> name] : name \in MakeDimNames}
    \cup {[via |-> "mode", n |-> m] : m \in {"level_per_type", "level_and_type"}}
    \cup {[via |-> "class", n |-> c] : c \in {"IndexingTimeDim", "ReferenceTimeDim"}}

\* the Dim of a kind
KindDim(k) ==
    CASE k.via = "make_dim" -> make_dim(k.n, TRUE).d
      [] k.via = "mode" -> LevelDimMode_build(k.n, TRUE)[1].d
      [] k.via = "class" -> Dim_init(k.n, "", "", "", {}, FALSE, TRUE)

InitKinds ==
    /\ ix = IxIdle
    /\ tn = TnIdle
    /\ dm = DmIdle
    /\ sp = SpIdle
    /\ \E a \in Kinds, b \in Kinds :
          ob = [pc |-> "new", a |-> a, b |-> b]

MakeKinds ==
    /\ ob.pc = "new"
    /\ ob' = [pc |-> "made", a |-> ob.a, b |-> ob.b,
              A |-> KindDim(ob.a), B |-> KindDim(ob.b)]
    /\ UNCHANGED <<ix, tn, dm, sp>>

NextKinds == MakeKinds

SpecKinds == InitKinds /\ [][NextKinds]_vars

\* the drop set of A holds the name, the key or an alias of B
Drops(A, B) == \E k \in A.drop : Contains(B, k)

\* C24: the mutual exclusion the drop tables define is symmetric: for any
\* two predefined dimension kinds A and B, A's drop set holds B's name, key
\* or an alias of B exactly when B's drop set holds A's name, key or an
\* alias of A.
C24_DropSymmetric ==
    (ob.pc = "made") => (Drops(ob.A, ob.B) <=> Drops(ob.B, ob.A))

\* ------------------------------------------------------------------------
\* Specification SpecDimInit: one Dim of any subtype is constructed with
\* name, key, alias and drop arguments.
\*   ob.pc    "new" before, "made" after the construction
\*   ob.cls, ob.name, ob.key, ob.alias, ob.drop   the class and the
\*            arguments ("" and NoArg for the ones not given)
\*   ob.err   "none" or the exception raised, ob.d the Dim constructed
\* ------------------------------------------------------------------------

DimClasses ==
    {"Dim", "NumberDim", "DateDim", "TimeDim", "StepDim", "ValidTimeDim",
     "ForecastRefTimeDim", "IndexingTimeDim", "ReferenceTimeDim",
     "CustomForecastRefDim", "LevelDim", "LevelPerTypeDim", "LevelAndTypeDim",
     "CompoundKeyDim", "OtherDim"}

\* names and keys given to the constructor
InitNames == {"", "date", "step", "levelist"}

\* alias and drop lists given to the constructor
InitLists == {NoArg} \cup {Arg(v) : v \in SUBSET {"date", "step", "levelist"}}

\* the constructor of each subtype with the arguments passed on to
\* Dim.__init__: CustomForecastRefDim is given the date and time keys,
\* the level kinds the level and level-type keys, CompoundKeyDim the
\* compound key param_level (RemappingDim.__init__ passes nothing on)
Dim_construct(cls, name, key, alias, drop) ==
    CASE cls = "CustomForecastRefDim" ->
            Dim_init_args(cls, name, key, alias, drop,
                          dim_roles.date \o "_" \o dim_roles.time,
                          {dim_roles.date, dim_roles.time}, TRUE, TRUE)
      [] cls = "LevelPerTypeDim" ->
            Dim_init_args(cls, name, key, alias, drop, dim_roles.level, {},
                          FALSE, TRUE)
      [] cls = "CompoundKeyDim" -> make_dim("param_level", TRUE).d
      [] OTHER ->
            Dim_init_args(cls, name, key, alias, drop, "", {}, FALSE, TRUE)

InitDimInit ==
    /\ ix = IxIdle
    /\ tn = TnIdle
    /\ dm = DmIdle
    /\ sp = SpIdle
    /\ \E cls \in DimClasses, name \in InitNames, key \in InitNames,
          alias \in InitLists, drop \in InitLists :
          ob = [pc |-> "new", cls |-> cls, name |-> name, key |-> key,
                alias |-> alias, drop |-> drop]

\* the constructor call; no name and no key raise ValueError (lines 143-147)
DimConstruct ==
    /\ ob.pc = "new"
    /\ LET d == Dim_construct(ob.cls, ob.name, ob.key, ob.alias, ob.drop)
       IN ob' = [pc |-> "made", cls |-> ob.cls, name |-> ob.name,
                 key |-> ob.key, alias |-> ob.alias, drop |-> ob.drop,
                 err |-> IF d.name = "" \/ d.key = "" THEN "ValueError"
                         ELSE "none",
                 d |-> d]
    /\ UNCHANGED <<ix, tn, dm, sp>>

NextDimInit == DimConstruct

SpecDimInit == InitDimInit /\ [][NextDimInit]_vars

\* C25: a constructed Dim of any subtype has neither its name nor its key
\* in its alias list or in its drop list, whatever alias and drop were
\* passed or declared on the class.
C25_NameKeyNotInOwnLists ==
    (ob.pc = "made" /\ ob.err = "none") =>
        {ob.d.name, ob.d.key} \cap (ob.d.alias \cup ob.d.drop) = {}

\* a Dim was constructed with its name in the alias list and its key in the
\* drop list it was given, and holds the other members of the two lists
C25_Witness ==
    /\ ob.pc = "made" /\ ob.err = "none"
    /\ ob.cls = "OtherDim"
    /\ ob.name = "date" /\ ob.key = "step"
    /\ ob.alias = Arg({"date", "levelist"})
    /\ ob.drop = Arg({"step", "levelist"})
    /\ ob.d.alias = {"levelist"}
    /\ ob.d.drop = {"levelist"}

\* ------------------------------------------------------------------------
\* coord.py: Coord and its subtypes, and the as_coord methods of dim.py.
\* A Coord is a record [cls, name, vals, dims, levtype]; levtype is the
\* mapping a LevelCoord collects (a function over the keys found), empty
\* for the other classes. The field list a coordinate is made for (ds,
\* tensor.source) is a record [indices, first]: indices maps the keys
\* ds.indices() holds to their first value ds.index(k)[0], first maps the
\* level-type keys to the metadata of the first field (None when absent).
\* The cache Dim.coords is a function from the cached keys to Coords.
\* ------------------------------------------------------------------------

\* the list of Coord.make for DateTimeCoord: the adjacent literals
\* "base_datetime" "reference_time" make one string
DateTimeCoordNames ==
    {"forecast_reference_time", "date", "hdate", "andate", "valid_time",
     "valid_datetime", "base_datetimereference_time", "indexing_time"}

\* the class Coord.make picks for a name
Coord_class(name) ==
    IF name \in DateTimeCoordNames THEN "DateTimeCoord"
    ELSE IF name \in {"time", "antime"} THEN "TimeCoord"
    ELSE IF name \in {"step"} THEN "StepCoord"
    ELSE IF name \in {"level", "levelist"} THEN "LevelCoord"
    ELSE "Coord"

LevTypeKeys == {"levtype", "typeOfLevel"}

\* the loop of LevelCoord.__init__ over levtype and typeOfLevel
LevelCoord_levtype(ds) ==
    [k \in {x \in LevTypeKeys : x \in DOMAIN ds.indices \/ ds.first[x] # None} |->
        IF k \in DOMAIN ds.indices THEN ds.indices[k] ELSE ds.first[k]]

\* Coord.__init__ and LevelCoord.__init__ (dims is not given)
Coord_init(cls, name, vals, ds) ==
    [cls |-> cls, name |-> name, vals |-> vals, dims |-> <<name>>,
     levtype |-> IF cls = "LevelCoord" THEN LevelCoord_levtype(ds) ELSE <<>>]

\* Coord.make(name, vals, ds=ds)
Coord_make(name, vals, ds) == Coord_init(Coord_class(name), name, vals, ds)

NoCoord == Coord_init("Coord", "", <<>>, [indices |-> <<>>, first |-> <<>>])

\* self.coords[key] = coord
CachePut(coords, key, coord) ==
    [k \in DOMAIN coords \cup {key} |-> IF k = key THEN coord ELSE coords[k]]

\* the outcome of an as_coord call: the exception raised or "none", the
\* name and the Coord returned, and the cache as the call leaves it
AsCoordResult(err, name, coord, coords) ==
    [err |-> err, name |-> name, coord |-> coord, coords |-> coords]

\* Dim.as_coord(key, values, tensor) on a Dim with the cache coords
Dim_as_coord(coords, key, values, source) ==
    IF key \notin DOMAIN coords
    THEN AsCoordResult("none", key, Coord_make(key, values, source),
                       CachePut(coords, key, Coord_make(key, values, source)))
    ELSE AsCoordResult("none", key, coords[key], coords)

\* LevelPerTypeDim.as_coord(key, values, tensor): the message of the
\* ValueError reads d.type_key, and d is the module-level loop variable of
\* lines 794-806, left bound to the class LevelAndTypeDim, which has no
\* attribute type_key
LevelPerTypeDim_as_coord(coords, level_type_key, values, source) ==
    LET lev_type == source.first[level_type_key]
    IN IF lev_type = None \/ lev_type = ""
       THEN AsCoordResult("AttributeError", "", NoCoord, coords)
       ELSE IF lev_type \notin DOMAIN coords
       THEN AsCoordResult("none", lev_type, Coord_make(lev_type, values, source),
                          CachePut(coords, lev_type,
                                   Coord_make(lev_type, values, source)))
       ELSE AsCoordResult("none", lev_type, coords[lev_type], coords)

\* d.as_coord(key, values, tensor) for a Dim object d = [cls, key,
\* level_type_key, coords]
Obj_as_coord(d, key, values, source) ==
    IF d.cls = "LevelPerTypeDim"
    THEN LevelPerTypeDim_as_coord(d.coords, d.level_type_key, values, source)
    ELSE Dim_as_coord(d.coords, key, values, source)

\* _get(k) of Dims.as_coord: the first Dim with the key k (0 for None)
Dims_get(objs, k) ==
    IF \E o \in DOMAIN objs : objs[o].key = k
    THEN CHOOSE o \in DOMAIN objs :
            objs[o].key = k /\ \A q \in DOMAIN objs : objs[q].key = k => o <= q
    ELSE 0

\* the loops of Dims.as_coord(tensor): the user coordinate i, and for
\* each the pass j over the dimensions; r is the mapping built so far (a
\* function from names to Coords)
RECURSIVE Dims_as_coord_loop(_, _, _, _, _)
Dims_as_coord_loop(objs, tensor, i, j, r) ==
    IF i > Len(tensor.user_coords) THEN [err |-> "none", objs |-> objs, r |-> r]
    ELSE IF j > Len(objs) THEN Dims_as_coord_loop(objs, tensor, i + 1, 1, r)
    ELSE LET k == tensor.user_coords[i].name
             o == Dims_get(objs, k)
         IN IF o = 0 THEN [err |-> "AttributeError", objs |-> objs, r |-> r]
            ELSE LET c == Obj_as_coord(objs[o], k, tensor.user_coords[i].vals,
                                       tensor.source)
                 IN IF c.err # "none"
                    THEN [err |-> c.err, objs |-> objs, r |-> r]
                    ELSE Dims_as_coord_loop(
                             [objs EXCEPT ![o].coords = c.coords], tensor, i,
                             j + 1, CachePut(r, c.name, c.coord))

\* Dims.as_coord(tensor)
Dims_as_coord(objs, tensor) == Dims_as_coord_loop(objs, tensor, 1, 1, <<>>)

\* ------------------------------------------------------------------------
\* Specification SpecCoord: coordinates are made by Coord.make and by the
\* as_coord methods of the dimensions of a Dims collection.
\*   ob.objs   the Dim objects of the collection, in the order of
\*             Dims.dims: records [cls, key, level_type_key, coords]
\*   ob.n      the number of calls made
\*   ob.last   the last call: op, the Dim o it was made on (0 for none),
\*             key, values, source or tensor given, and its outcome (err,
\*             the name and the Coord returned, the mapping r returned by
\*             Dims.as_coord)
\* ------------------------------------------------------------------------

\* number of calls in a run
MaxCalls == 2

\* the names given to Coord.make
CoordNames ==
    {"forecast_reference_time", "date", "hdate", "andate", "valid_time",
     "valid_datetime", "base_datetime", "reference_time", "indexing_time",
     "time", "step", "level", "levelist", "number", "pl"}

ValueSeqs == {<<850>>, <<850, 1000>>, <<1000, 850>>}

\* field lists: the level type of the first field is absent, empty or
\* given; the index of the field list holds it or not
Sources ==
    {[indices |-> <<>>, first |-> [k \in LevTypeKeys |-> IF k = "levtype" THEN x ELSE None]] :
        x \in {None, "", "pl", "sfc"}}
    \cup {[indices |-> [k \in {"levtype"} |-> "pl"],
           first |-> [k \in LevTypeKeys |-> IF k = "levtype" THEN "pl" ELSE None]]}

DimObj(cls, key, level_type_key) ==
    [cls |-> cls, key |-> key, level_type_key |-> level_type_key, coords |-> <<>>]

\* the collections: date with a level dimension or a level-per-type
\* dimension, as the level modes build them
Collections ==
    {<<DimObj("DateDim", "date", ""),
       DimObj("LevelDim", dim_roles.level, "")>>,
     <<DimObj("DateDim", "date", ""),
       DimObj("LevelPerTypeDim", dim_roles.level, dim_roles.level_type)>>}

\* the tensors given to Dims.as_coord
CoordTensors ==
    {[user_coords |-> uc, source |-> src] :
        uc \in {<<[name |-> "levelist", vals |-> v]>> : v \in ValueSeqs}
               \cup {<<[name |-> "date", vals |-> <<850>>],
                       [name |-> "levelist", vals |-> v]>> : v \in ValueSeqs}
               \cup {<<[name |-> "step", vals |-> <<850>>]>>},
        src \in Sources}

NoTensor == [user_coords |-> <<>>, source |-> [indices |-> <<>>, first |-> <<>>]]

CoordCall(op, o, key, values, tensor, err, name, coord, r) ==
    [op |-> op, o |-> o, key |-> key, values |-> values, tensor |-> tensor,
     err |-> err, name |-> name, coord |-> coord, r |-> r]

InitCoord ==
    /\ ix = IxIdle
    /\ tn = TnIdle
    /\ dm = DmIdle
    /\ sp = SpIdle
    /\ \E objs \in Collections :
          ob = [pc |-> "ready", objs |-> objs, n |-> 0,
                last |-> CoordCall("none", 0, "", <<>>, NoTensor, "none", "",
                                   NoCoord, <<>>)]

\* Coord.make(name, values, ds=source)
CallCoordMake ==
    /\ ob.pc = "ready" /\ ob.n < MaxCalls
    /\ \E name \in CoordNames, values \in ValueSeqs, src \in Sources :
          ob' = [ob EXCEPT !.n = @ + 1,
                    !.last = CoordCall("Coord.make", 0, name, values,
                                       [user_coords |-> <<>>, source |-> src],
                                       "none", name,
                                       Coord_make(name, values, src), <<>>)]
    /\ UNCHANGED <<ix, tn, dm, sp>>

\* d.as_coord(key, values, tensor) on a Dim of the collection that is not a
\* LevelPerTypeDim, with the key of the Dim as Dims.as_coord gives it
DimAsCoord ==
    /\ ob.pc = "ready" /\ ob.n < MaxCalls
    /\ \E o \in DOMAIN ob.objs, values \in ValueSeqs, src \in Sources :
          /\ ob.objs[o].cls # "LevelPerTypeDim"
          /\ LET c == Dim_as_coord(ob.objs[o].coords, ob.objs[o].key, values, src)
             IN ob' = [ob EXCEPT !.n = @ + 1,
                          !.objs[o].coords = c.coords,
                          !.last = CoordCall("Dim.as_coord", o, ob.objs[o].key,
                                             values,
                                             [user_coords |-> <<>>, source |-> src],
                                             c.err, c.name, c.coord, <<>>)]
    /\ UNCHANGED <<ix, tn, dm, sp>>

\* d.as_coord(key, values, tensor) on a LevelPerTypeDim of the collection
LevelPerTypeAsCoord ==
    /\ ob.pc = "ready" /\ ob.n < MaxCalls
    /\ \E o \in DOMAIN ob.objs, values \in ValueSeqs, src \in Sources :
          /\ ob.objs[o].cls = "LevelPerTypeDim"
          /\ LET c == LevelPerTypeDim_as_coord(ob.objs[o].coords,
                                               ob.objs[o].level_type_key,
                                               values, src)
             IN ob' = [ob EXCEPT !.n = @ + 1,
                          !.objs[o].coords = c.coords,
                          !.last = CoordCall("LevelPerTypeDim.as_coord", o,
                                             ob.objs[o].key, values,
                                             [user_coords |-> <<>>, source |-> src],
                                             c.err, c.name, c.coord, <<>>)]
    /\ UNCHANGED <<ix, tn, dm, sp>>

\* Dims.as_coord(tensor)
DimsAsCoord ==
    /\ ob.pc = "ready" /\ ob.n < MaxCalls
    /\ \E tensor \in CoordTensors :
          LET c == Dims_as_coord(ob.objs, tensor)
          IN ob' = [ob EXCEPT !.n = @ + 1,
                       !.objs = c.objs,
                       !.last = CoordCall("Dims.as_coord", 0, "", <<>>, tensor,
                                          c.err, "", NoCoord, c.r)]
    /\ UNCHANGED <<ix, tn, dm, sp>>

NextCoord == CallCoordMake \/ DimAsCoord \/ LevelPerTypeAsCoord \/ DimsAsCoord

SpecCoord == InitCoord /\ [][NextCoord]_vars

\* the names the table of Coord.make is to give a DateTime coordinate
DateTimeLikeNames ==
    {"forecast_reference_time", "date", "hdate", "andate", "valid_time",
     "valid_datetime", "base_datetime", "reference_time", "indexing_time"}

\* C26: Coord.make picks the subtype from the name alone: each of the
\* date/time-like names gives a DateTimeCoord, step a StepCoord, level and
\* levelist a LevelCoord, and any other name a generic Coord.
C26_CoordMakeTable ==
    (ob.last.op = "Coord.make") =>
        ob.last.coord.cls =
            (IF ob.last.key \in DateTimeLikeNames THEN "DateTimeCoord"
             ELSE IF ob.last.key = "step" THEN "StepCoord"
             ELSE IF ob.last.key \in {"level", "levelist"} THEN "LevelCoord"
             ELSE "Coord")

\* C27: LevelPerTypeDim.as_coord names the coordinate after the level
\* type of the tensor's first field, and when that value is absent or empty
\* it raises ValueError and nothing else.
C27_LevelTypeMissingFatal ==
    (ob.last.op = "LevelPerTypeDim.as_coord") =>
        LET lev_type == ob.last.tensor.source.first[ob.objs[ob.last.o].level_type_key]
        IN IF lev_type = None \/ lev_type = ""
           THEN ob.last.err = "ValueError"
           ELSE /\ ob.last.err = "none"
                /\ ob.last.name = lev_type
                /\ ob.last.coord.name = lev_type

\* C28: every call d.as_coord(key, values, tensor), a second call on the
\* same Dim with other values included, returns a Coord that holds the
\* values passed in that call; so does Dims.as_coord for every user
\* coordinate of the tensor it is given.
C28_CoordHoldsCallValues ==
    /\ (ob.last.op \in {"Dim.as_coord", "LevelPerTypeDim.as_coord"}
        /\ ob.last.err = "none")
       => ob.last.coord.vals = ob.last.values
    /\ (ob.last.op = "Dims.as_coord" /\ ob.last.err = "none")
       => \A i \in DOMAIN ob.last.tensor.user_coords :
             \E name \in DOMAIN ob.last.r :
                 ob.last.r[name].vals = ob.last.tensor.user_coords[i].vals

\* ------------------------------------------------------------------------
\* Specification SpecCheck: the consistency check is run on a tensor, or
\* two lists are compared.
\*   ob.pc     "new" before, "done" after the call
\*   ob.op     "check" (CubeChecker.check) or "diff" (ListDiff.diff)
\*   ob.tensor the tensor checked; ob.vals1, ob.vals2 the lists compared
\*   ob.res    the outcome: [err, index, name] of the check, [err, same,
\*             diff_index] of the comparison
\* ------------------------------------------------------------------------

\* most fields of a checked tensor, longest list compared
MaxCheckFields == 3

MaxDiffLen == 2

\* the user coordinates of the checked tensors
CheckCoords ==
    {<<[name |-> "date", vals |-> <<20210101>>]>>,
     <<[name |-> "date", vals |-> <<20210101, 20210102>>]>>,
     <<[name |-> "date", vals |-> <<20210101, 20210102>>],
       [name |-> "level", vals |-> <<850, 1000>>]>>,
     <<[name |-> "level", vals |-> <<850, 1000>>],
       [name |-> "date", vals |-> <<20210101, 20210102>>]>>}

CheckTensors ==
    {FieldListTensor_attrs(source, user_coords, TensorGrid_coords(FALSE),
                           TensorGrid_dims(FALSE), FALSE) :
        source \in SeqsOf(Fields, 1, MaxCheckFields), user_coords \in CheckCoords}

\* the values of the compared lists
PyValues ==
    {PyInt(1), PyInt(2), PyFloat(1, 0), PyFloat(1, 1), PyStr("a"), PyNone}

DiffLists == SeqsOf(PyValues, 0, MaxDiffLen)

NoCheckRes == [err |-> "none", index |-> -1, name |-> ""]

InitCheck ==
    /\ ix = IxIdle
    /\ tn = TnIdle
    /\ dm = DmIdle
    /\ sp = SpIdle
    /\ \/ \E tensor \in CheckTensors :
             ob = [pc |-> "new", op |-> "check", tensor |-> tensor,
                   vals1 |-> <<>>, vals2 |-> <<>>, res |-> NoCheckRes]
       \/ \E vals1 \in DiffLists, vals2 \in DiffLists :
             ob = [pc |-> "new", op |-> "diff", tensor |-> NullTensor,
                   vals1 |-> vals1, vals2 |-> vals2, res |-> NoCheckRes]

\* CubeChecker(tensor).check(details=True)
CallCheck ==
    /\ ob.pc = "new" /\ ob.op = "check"
    /\ ob' = [ob EXCEPT !.pc = "done", !.res = CubeChecker_report(ob.tensor)]
    /\ UNCHANGED <<ix, tn, dm, sp>>

\* ListDiff.diff(vals1, vals2)
CallListDiff ==
    /\ ob.pc = "new" /\ ob.op = "diff"
    /\ ob' = [ob EXCEPT !.pc = "done", !.res = ListDiff_diff(ob.vals1, ob.vals2)]
    /\ UNCHANGED <<ix, tn, dm, sp>>

NextCheck == CallCheck \/ CallListDiff

SpecCheck == InitCheck /\ [][NextCheck]_vars

\* the fields (0-based) whose metadata for the dimension keys is not the
\* coordinate tuple found at their flat index
Deviating(t) ==
    {i \in 0..(Len(t.source) - 1) :
        \E k \in 1..Len(t.user_coords) :
            metadata(t.source[i + 1], t.user_coords[k].name)
                # t.user_coords[k].vals[index_to_coords(i, t.user_shape)[k] + 1]}

\* the first dimension in which field i deviates
DeviatingDim(t, i) ==
    LET K == {k \in 1..Len(t.user_coords) :
                 metadata(t.source[i + 1], t.user_coords[k].name)
                     # t.user_coords[k].vals[index_to_coords(i, t.user_shape)[k] + 1]}
    IN t.user_coords[CHOOSE k \in K : \A j \in K : k <= j].name

\* Python equality of two values: an int equals the float of its value
PyEqual(v1, v2) ==
    IF v1.t \in {"int", "float"} /\ v2.t \in {"int", "float"}
    THEN v1.v = v2.v /\ v1.e = v2.e
    ELSE v1 = v2

\* C29: when the number of fields differs from the product of user_shape,
\* the checker reports the smallest field index whose expected coordinate
\* tuple differs from the metadata of the field, with the first differing
\* dimension; and two coordinate lists are reported the same exactly when
\* they have one length and every pair of values is equal.
C29_FirstDeviation ==
    /\ (/\ ob.pc = "done" /\ ob.op = "check"
        /\ Len(ob.tensor.source) # Prod(ob.tensor.user_shape)
        /\ Deviating(ob.tensor) # {})
       => LET i == CHOOSE x \in Deviating(ob.tensor) :
                      \A y \in Deviating(ob.tensor) : x <= y
          IN /\ ob.res.err = "ValueError"
             /\ ob.res.index = i
             /\ ob.res.name = DeviatingDim(ob.tensor, i)
    /\ (ob.pc = "done" /\ ob.op = "diff")
       => /\ ob.res.err = "none"
          /\ ob.res.same <=>
                /\ Len(ob.vals1) = Len(ob.vals2)
                /\ \A k \in 1..Len(ob.vals1) : PyEqual(ob.vals1[k], ob.vals2[k])

\* ------------------------------------------------------------------------
\* dim.py: the copy methods and Dims.to_list. The Dim objects live in a
\* heap objs (a sequence, an object is its position); the collection holds
\* entries [mk, o], and to_list returns a list of objects.
\* ------------------------------------------------------------------------

\* CustomForecastRefDim._name(date, time)
CustomForecastRefDim_name(date, time) ==
    CASE date = "dataDate" /\ time = "dataTime" -> "data_time"
      [] date = "indexingDate" /\ time = "indexingTime" -> "indexing_time"
      [] OTHER -> date \o "_" \o time

\* CustomForecastRefDim.__init__(owner, keys) with keys a list of two
CustomForecastRefDim_init(date, time, active) ==
    Dim_init("CustomForecastRefDim", "", "", CustomForecastRefDim_name(date, time),
             {date, time}, TRUE, active)

\* the copy method of the class of d
Dim_copy(d) ==
    CASE d.cls = "CustomForecastRefDim" ->
            \* self.__class__(self.owner, self.key): keys is a str
            Dim_init(d.cls, "", "", d.key, {}, FALSE, TRUE)
      [] d.cls = "LevelPerTypeDim" ->
            \* self.__class__(self.owner, self.level_key, self.level_type_key)
            Dim_init(d.cls, "", "", d.key, {}, FALSE, TRUE)
      [] d.cls = "LevelAndTypeDim" ->
            \* ... (self.owner, self.level_key, self.level_type_key,
            \*      active=self.active)
            Dim_init(d.cls, "", "", "", {}, FALSE, d.active)
      [] d.cls = "CompoundKeyDim" ->
            \* self.__class__(self.owner, self.ck)
            Dim_init(d.cls, d.name, "", "", build_drop(CompoundKey_keys(d.name)),
                     TRUE, TRUE)
      [] OTHER ->
            \* Dim.copy: name, key, alias and drop are passed, active is not
            Dim_init_args(d.cls, d.name, d.key, Arg(d.alias), Arg(d.drop),
                          "", {}, FALSE, TRUE)

\* Dims.to_list(copy=do_copy): [objs, res], the heap with the new objects and the
\* list returned
Dims_to_list(objs, dims, do_copy) ==
    IF do_copy
    THEN [objs |-> objs \o [j \in 1..Len(dims) |-> Dim_copy(objs[dims[j].o])],
          res |-> [j \in 1..Len(dims) |-> Len(objs) + j]]
    ELSE [objs |-> objs, res |-> [j \in 1..Len(dims) |-> dims[j].o]]

\* ------------------------------------------------------------------------
\* Specification SpecToList: a collection of dimensions is deactivated,
\* pruned and listed.
\*   ob.pc    "held" before to_list was called, "listed" after
\*   ob.objs  the heap of Dim objects
\*   ob.dims  the collection: entries [mk, o]
\*   ob.res   the list to_list returned (objects)
\*   ob.snap  the originals as they were when to_list was called
\*   ob.ops   the number of deactivate and remove calls so far
\* ------------------------------------------------------------------------

\* most dimensions held, most deactivate/remove calls
MaxHeld == 2

MaxOps == 2

\* the dimensions a collection is made of, each constructed active
HeldDims ==
    {make_dim(n, TRUE).d : n \in {"date", "step", "level", "number", "param_level"}}
    \cup {LevelDimMode_build(m, TRUE)[1].d : m \in {"level_per_type", "level_and_type"}}
    \cup {CustomForecastRefDim_init("dataDate", "dataTime", TRUE)}

\* the keys of the deactivate and remove calls
HeldKeys ==
    {"date", "step", "level", "number", "level_and_type", "data_time", "param_level"}

InitToList ==
    /\ ix = IxIdle
    /\ tn = TnIdle
    /\ dm = DmIdle
    /\ sp = SpIdle
    /\ \E objs \in SeqsOf(HeldDims, 1, MaxHeld) :
          /\ \A i, j \in DOMAIN objs : i # j => objs[i].name # objs[j].name
          /\ ob = [pc |-> "held", objs |-> objs,
                   dims |-> [j \in DOMAIN objs |-> [mk |-> objs[j].name, o |-> j]],
                   res |-> <<>>, snap |-> <<>>, ops |-> 0]

\* Dims.to_list()
DimsToList ==
    /\ ob.pc = "held"
    /\ LET r == Dims_to_list(ob.objs, ob.dims, TRUE)
       IN ob' = [ob EXCEPT !.pc = "listed", !.objs = r.objs, !.res = r.res,
                           !.snap = [j \in DOMAIN ob.dims |-> ob.objs[ob.dims[j].o]]]
    /\ UNCHANGED <<ix, tn, dm, sp>>

\* Dims.deactivate(keys, others=others)
HeldDeactivate ==
    /\ ob.ops < MaxOps
    /\ \E key \in HeldKeys, others \in BOOLEAN :
          ob' = [ob EXCEPT !.ops = @ + 1,
                           !.objs = Dims_deactivate(ob.objs, ob.dims, {key}, NoDim,
                                                    others).objs]
    /\ UNCHANGED <<ix, tn, dm, sp>>

\* Dims.remove(keys, others=others)
HeldRemove ==
    /\ ob.ops < MaxOps
    /\ \E key \in HeldKeys, others \in BOOLEAN :
          LET r == Dims_remove(ob.objs, ob.dims, {key}, NoDim, others)
          IN ob' = [ob EXCEPT !.ops = @ + 1, !.objs = r.objs, !.dims = r.dims]
    /\ UNCHANGED <<ix, tn, dm, sp>>

NextToList == DimsToList \/ HeldDeactivate \/ HeldRemove

SpecToList == InitToList /\ [][NextToList]_vars

\* C30: to_list returns one copy per held dimension, in order, each a new
\* object with the name, key, alias, drop and active flag its original had,
\* whatever the subtype, and the deactivate and remove calls made afterwards
\* change none of these in the copies.
C30_CopiesKeepAttributes ==
    ob.pc = "listed"
    => /\ Len(ob.res) = Len(ob.snap)
       /\ \A j \in DOMAIN ob.res :
             /\ \A e \in DOMAIN ob.dims : ob.dims[e].o # ob.res[j]
             /\ ob.objs[ob.res[j]].name = ob.snap[j].name
             /\ ob.objs[ob.res[j]].key = ob.snap[j].key
             /\ ob.objs[ob.res[j]].alias = ob.snap[j].alias
             /\ ob.objs[ob.res[j]].drop = ob.snap[j].drop
             /\ ob.objs[ob.res[j]].active = ob.snap[j].active

\* ------------------------------------------------------------------------
\* dates.py: step_to_delta, and coord.py: StepCoord.convert. A raw step is
\* [t |-> "int", n |-> n], [t |-> "str", s |-> s] with s the sequence of the
\* characters of the string, [t |-> "timedelta", sec |-> n] (a
\* datetime.timedelta of n seconds) or [t |-> "float"] (any other type). A
\* decoded step is a datetime.timedelta, held as its number of seconds.
\* ------------------------------------------------------------------------

\* largest integer step and longest step string of the runs
MaxStepInt == 6

MaxStepLen == 3

ECC_SECONDS_FACTORS == [c \in {"s", "m", "h"} |->
                           CASE c = "s" -> 1 [] c = "m" -> 60 [] c = "h" -> 3600]

\* the characters \d matches and the characters [a-zA-Z] matches, among
\* those used by the runs
DigitChars == {"0", "6", "9"}

LetterChars == {"s", "m", "h", "H", "a", "b", "c"}

DigitValue(c) == CASE c = "0" -> 0 [] c = "6" -> 6 [] c = "9" -> 9

\* int(s) of a string of digits
RECURSIVE int_of_digits(_)
int_of_digits(s) ==
    IF s = <<>> THEN 0
    ELSE 10 * int_of_digits(SubSeq(s, 1, Len(s) - 1)) + DigitValue(s[Len(s)])

\* re.fullmatch(NUM_STEP_PATTERN, step), re.fullmatch(SUFFIX_STEP_PATTERN, step)
NUM_STEP_PATTERN(s) == Len(s) >= 1 /\ \A i \in DOMAIN s : s[i] \in DigitChars

SUFFIX_STEP_PATTERN(s) ==
    /\ Len(s) >= 2
    /\ \A i \in 1..(Len(s) - 1) : s[i] \in DigitChars
    /\ s[Len(s)] \in LetterChars

Delta(sec) == [err |-> "none", sec |-> sec]

StepError == [err |-> "ValueError", sec |-> 0]

step_to_delta_hours(step) ==
    IF step.t = "int" THEN Delta(step.n * 3600)
    ELSE IF step.t = "str" /\ NUM_STEP_PATTERN(step.s)
    THEN Delta(int_of_digits(step.s) * 3600)
    ELSE IF step.t = "str" /\ SUFFIX_STEP_PATTERN(step.s)
    THEN Delta(int_of_digits(SubSeq(step.s, 1, Len(step.s) - 1)) * 3600)
    ELSE IF step.t = "timedelta" THEN Delta(step.sec)
    ELSE StepError

\* step_to_delta(step): [err, sec]
step_to_delta(step) ==
    IF step.t = "int" THEN Delta(step.n * 3600)
    ELSE IF step.t = "str" /\ NUM_STEP_PATTERN(step.s)
    THEN Delta(int_of_digits(step.s) * 3600)
    ELSE IF step.t = "str" /\ SUFFIX_STEP_PATTERN(step.s)
    THEN IF step.s[Len(step.s)] \notin DOMAIN ECC_SECONDS_FACTORS
         THEN StepError
         ELSE Delta(int_of_digits(SubSeq(step.s, 1, Len(step.s) - 1))
                    * ECC_SECONDS_FACTORS[step.s[Len(step.s)]])
    ELSE IF step.t = "timedelta" THEN Delta(step.sec)
    ELSE StepError

\* StepCoord.convert(profile) on the values vals: [err, vals]; the list
\* comprehension stops at the first value that raises
StepCoord_convert(vals, decode_time) ==
    IF ~decode_time THEN [err |-> "none", vals |-> vals]
    ELSE IF \E i \in DOMAIN vals : step_to_delta(vals[i]).err # "none"
    THEN [err |-> "ValueError", vals |-> <<>>]
    ELSE [err |-> "none", vals |-> [i \in DOMAIN vals |-> step_to_delta(vals[i]).sec]]

\* ------------------------------------------------------------------------
\* Specification SpecStep: raw step values are decoded, one by
\* step_to_delta or a list of them by StepCoord.convert.
\*   sp.pc    "new" before the call, "done" after it
\*   sp.vals  the raw values, sp.decode_time the profile's setting
\*   sp.op    the call made, sp.res what it returned or raised
\* ------------------------------------------------------------------------

StepChars == DigitChars \cup LetterChars \cup {"-"}

StepStrings == UNION {[1..n -> StepChars] : n \in 0..MaxStepLen}

IntStep(n) == [t |-> "int", n |-> n]

StrStep(s) == [t |-> "str", s |-> s]

RawSteps ==
    {IntStep(n) : n \in -1..MaxStepInt}
    \cup {StrStep(s) : s \in StepStrings}
    \cup {[t |-> "timedelta", sec |-> n] : n \in {0, 5400}}
    \cup {[t |-> "float"]}

\* the raw values of the lists given to StepCoord.convert
ListSteps ==
    {IntStep(6), StrStep(<<"6">>), StrStep(<<"6", "h">>), StrStep(<<"9", "0", "m">>),
     StrStep(<<"a", "b", "c">>), StrStep(<<"6", "H">>)}

InitStep ==
    /\ ix = IxIdle
    /\ ob = ObIdle
    /\ tn = TnIdle
    /\ dm = DmIdle
    /\ \E vals \in {<<v>> : v \in RawSteps} \cup {<<v, w>> : v \in ListSteps, w \in ListSteps},
          decode_time \in BOOLEAN :
          sp = [pc |-> "new", vals |-> vals, decode_time |-> decode_time,
                op |-> "none", res |-> StepError]

\* step_to_delta(step) on a single raw value
CallStepToDelta ==
    /\ sp.pc = "new"
    /\ Len(sp.vals) = 1
    /\ sp' = [sp EXCEPT !.pc = "done", !.op = "step_to_delta",
                        !.res = step_to_delta(sp.vals[1])]
    /\ UNCHANGED <<ix, tn, dm, ob>>

\* coord.convert(profile) of the StepCoord holding the raw values
CallConvert ==
    /\ sp.pc = "new"
    /\ sp' = [sp EXCEPT !.pc = "done", !.op = "convert",
                        !.res = StepCoord_convert(sp.vals, sp.decode_time)]
    /\ UNCHANGED <<ix, tn, dm, ob>>

NextStep == CallStepToDelta \/ CallConvert

SpecStep == InitStep /\ [][NextStep]_vars

\* ------------------------------------------------------------------------
\* Claims on step decoding (specification SpecStep)
\* ------------------------------------------------------------------------

\* the number a string of digits denotes
RECURSIVE Decimal(_)
Decimal(s) ==
    IF s = <<>> THEN 0
    ELSE LET d == CASE s[Len(s)] = "0" -> 0 [] s[Len(s)] = "6" -> 6
                    [] s[Len(s)] = "9" -> 9
         IN d + 10 * Decimal(SubSeq(s, 1, Len(s) - 1))

AllDigits(s) == s # <<>> /\ \A i \in DOMAIN s : s[i] \in {"0", "6", "9"}

Seconds(n) == [ok |-> TRUE, sec |-> n]

\* what the decoding of a raw step is to give: a number of seconds, or an
\* error (not ok); a timedelta is to pass when passTimedelta
Decoded(step, passTimedelta) ==
    IF step.t = "int" THEN Seconds(step.n * 3600)
    ELSE IF step.t = "str" /\ AllDigits(step.s) THEN Seconds(Decimal(step.s) * 3600)
    ELSE IF step.t = "str" /\ Len(step.s) >= 2
            /\ AllDigits(SubSeq(step.s, 1, Len(step.s) - 1))
            /\ step.s[Len(step.s)] \in {"s", "m", "h"}
    THEN Seconds(Decimal(SubSeq(step.s, 1, Len(step.s) - 1))
                 * (CASE step.s[Len(step.s)] = "s" -> 1
                      [] step.s[Len(step.s)] = "m" -> 60
                      [] step.s[Len(step.s)] = "h" -> 3600))
    ELSE IF step.t = "timedelta" /\ passTimedelta THEN Seconds(step.sec)
    ELSE [ok |-> FALSE, sec |-> 0]

DecodedAs(res, want) ==
    IF want.ok THEN res.err = "none" /\ res.sec = want.sec
    ELSE res.err = "ValueError"

\* C18 as stated: step_to_delta gives n hours for the integer n, that many
\* hours for a string of digits, digits times 1, 60 or 3600 seconds for
\* digits followed by s, m or h, and raises an error for every other value.
C18_StepDecoding ==
    (sp.pc = "done" /\ sp.op = "step_to_delta")
    => DecodedAs(sp.res, Decoded(sp.vals[1], FALSE))

\* C18 amended: as stated, except that a datetime.timedelta is returned as
\* it is; and StepCoord.convert decodes each of its values in this way when
\* decode_time is set and raises when one of them does.
C18_StepDecodingTimedelta ==
    /\ (sp.pc = "done" /\ sp.op = "step_to_delta")
       => DecodedAs(sp.res, Decoded(sp.vals[1], TRUE))
    /\ (sp.pc = "done" /\ sp.op = "convert" /\ sp.decode_time)
       => IF \E i \in DOMAIN sp.vals : ~Decoded(sp.vals[i], TRUE).ok
          THEN sp.res.err = "ValueError"
          ELSE /\ sp.res.err = "none"
               /\ sp.res.vals = [i \in DOMAIN sp.vals |-> Decoded(sp.vals[i], TRUE).sec]

\* "90m" has been decoded to 90 minutes
C18_Witness ==
    /\ sp.pc = "done"
    /\ sp.op = "step_to_delta"
    /\ sp.vals = <<StrStep(<<"9", "0", "m">>)>>
    /\ sp.res = [err |-> "none", sec |-> 5400]

====
